---- MODULE Spec2Model ----
(***************************************************************************)
(* Media production pipeline of projectnewsv2: the asset generation        *)
(* orchestrator (videoAssetService.js) with its retry / sanitization       *)
(* policy, and the scene render engine (ffmpegRenderService.js) with the   *)
(* controller that starts it (videoController.js).                         *)
(*                                                                         *)
(* The specifications share the operators that model the code:             *)
(*   SpecGen    : one generateImage / generateAudio call, attempt by       *)
(*                attempt.                                                 *)
(*   Spec       : one generateAllAssets run over a plan of scenes, with    *)
(*                the per-scene tasks interleaved and storage / database   *)
(*                faults injected, and the caller's rejection handler.     *)
(*   FairSpec   : Spec in which every pending step is eventually taken.    *)
(*   SpecRender : render requests for one video, each followed through     *)
(*                the controller and renderVideo, interleaved with each    *)
(*                other and with a regeneration of the plan.               *)
(*   SpecAgain  : generateAllAssets called again for a video whose run     *)
(*                ended FAILED, and render requests made one after the     *)
(*                other.                                                   *)
(*   SpecLongPlan : one render request over a plan of up to six scenes.    *)
(*   SpecRegen  : one render request for a video whose plan and assets     *)
(*                were generated twice.                                    *)
(*   SpecConcat, SpecProbe, SpecSanitize : calls of concatenateClips,      *)
(*                getAudioDuration and sanitizePrompt over bounded inputs. *)
(***************************************************************************)
EXTENDS Integers, Sequences, FiniteSets, TLC

\* ------------------------------------------------------------------ bounds
\* Largest number of scenes in a plan.
MaxScenes == 2
\* Largest number of storage / database failures injected into one run.
MaxFaults == 2

\* ------------------------------------------------------- program constants
\* generateImage / generateAudio: maxRetries = 3
DefaultMaxRetries == 3
\* setTimeout(resolve, 1000): the fixed retry delay in milliseconds
RetryDelayMs == 1000

\* ---------------------------------------------------------------- prompts
\* A prompt is a sequence of tokens: a token is a maximal word, a single
\* whitespace character " ", or a piece of punctuation.  Fixed phrases of the
\* code that contain neither a removable term nor doubled whitespace are kept
\* as one token.

\* removeTerms[0..2] of sanitizePrompt, lower-cased.
ViolenceTerms ==
    {"blood", "bloody", "gore", "gory", "violent", "violence", "death", "dead",
     "dying", "kill", "murder", "weapon", "gun", "knife", "attack", "war",
     "battle", "fight", "explosion", "bomb", "terrorist", "terror"}
SexualTerms == {"nude", "naked", "sexual", "erotic", "explicit", "nsfw"}
HateTerms == {"hate", "racist", "discrimination"}

\* The /i flag of the three regular expressions.
LowerCase(w) ==
    CASE w = "Gun" -> "gun"
      [] w = "War" -> "war"
      [] OTHER -> w

RECURSIVE SelectTokens(_, _)
\* String.prototype.replace(regex, '') with a /g regex of whole words: every
\* token that is one of the terms is dropped, the rest keep their order.
SelectTokens(s, terms) ==
    IF s = <<>> THEN <<>>
    ELSE IF LowerCase(Head(s)) \in terms THEN SelectTokens(Tail(s), terms)
         ELSE <<Head(s)>> \o SelectTokens(Tail(s), terms)

RemoveTerms(s) ==
    SelectTokens(SelectTokens(SelectTokens(s, ViolenceTerms), SexualTerms), HateTerms)

RECURSIVE CollapseSpaces(_)
\* replace(/\s+/g, ' '): a run of whitespace tokens becomes one.
CollapseSpaces(s) ==
    IF Len(s) < 2 THEN s
    ELSE IF s[1] = " " /\ s[2] = " " THEN CollapseSpaces(Tail(s))
         ELSE <<s[1]>> \o CollapseSpaces(Tail(s))

\* String.prototype.trim on a sequence whose whitespace runs are collapsed.
Trim(s) ==
    LET a == IF s # <<>> /\ s[1] = " " THEN Tail(s) ELSE s
    IN  IF a # <<>> /\ a[Len(a)] = " " THEN SubSeq(a, 1, Len(a) - 1) ELSE a

Level2Prefix == <<"Professional news broadcast style illustration:", " ">>
Level2Suffix == <<".", " ", "Clean, corporate, appropriate for all audiences.">>
Level3Prompt ==
    <<"Abstract professional illustration representing news and current events. Modern, clean design with blue and neutral tones. Suitable for news broadcast.">>

\* Mutant of sanitizePrompt: level 2 wraps the prompt as it came in.
sanitizePromptWrapsRaw(prompt, level) ==
    LET s1 == IF level >= 1 THEN RemoveTerms(prompt) ELSE prompt
        s2 == IF level >= 2 THEN Level2Prefix \o prompt \o Level2Suffix ELSE s1
        s3 == IF level >= 3 THEN Level3Prompt ELSE s2
    IN  Trim(CollapseSpaces(s3))

sanitizePrompt(prompt, level) ==
    LET s1 == IF level >= 1 THEN RemoveTerms(prompt) ELSE prompt
        s2 == IF level >= 2 THEN Level2Prefix \o s1 \o Level2Suffix ELSE s1
        s3 == IF level >= 3 THEN Level3Prompt ELSE s2
    IN  Trim(CollapseSpaces(s3))

\* Image prompts the plans are drawn from.
Prompts ==
    { <<"city", " ", "skyline">>,
      <<"Gun", " ", "attack", " ", "in", " ", "city">> }

\* ----------------------------------------------------- generation failures
\* An error thrown by the generative service: its HTTP status and the words
\* of its message.
ErrBlocked == [status |-> 400, message |-> <<"safety", "system", "rejected">>]
ErrFiltered == [status |-> 500, message |-> <<"content", "filter">>]
ErrTransient == [status |-> 429, message |-> <<"rate", "limit">>]
ErrFatal == [status |-> 401, message |-> <<"invalid", "api", "key">>]
\* thrown by generateImage itself when the download of the image URL fails
ErrDownload == [status |-> 0, message |-> <<"Failed", "to", "download", "image">>]
NoError == [status |-> 0, message |-> <<>>]

ServiceErrors == {ErrBlocked, ErrFiltered, ErrTransient, ErrFatal}
\* the request succeeded
Ok == [status |-> 200, message |-> <<>>]

\* What one request of generateImage can come back with.
ImageOutcomes == {Ok} \cup ServiceErrors \cup {ErrDownload}
\* What one request of generateAudio can come back with.
AudioOutcomes == {Ok} \cup ServiceErrors

\* error.message?.includes(word)
Includes(message, word) == \E i \in 1..Len(message) : message[i] = word

isContentFilter(error) ==
    \/ error.status = 400
    \/ Includes(error.message, "content")
    \/ Includes(error.message, "filter")
    \/ Includes(error.message, "policy")
    \/ Includes(error.message, "blocked")

\* ------------------------------------------------ generateImage, one call
\* The local state of one generateImage / generateAudio call.  log is the
\* history of the requests issued so far: the prompt sent, what came back
\* and the delay waited for afterwards.
StartCall(kind, prompt, maxRetries) ==
    [kind |-> kind, prompt |-> prompt, maxRetries |-> maxRetries,
     currentPrompt |-> prompt, attempt |-> 0, lastError |-> NoError,
     state |-> "running", thrown |-> <<>>, retryAttempt |-> 0, log |-> <<>>]

\* Decimal numerals as message tokens.
Numeral == <<"1", "2", "3", "4", "5", "6">>

\* `Image generation failed after ${maxRetries + 1} attempts: ${lastError?.message}`
ImageFailureMessage(g, lastError) ==
    <<"Image generation failed after", Numeral[g.maxRetries + 1], "attempts:">> \o lastError.message

\* `Audio generation failed after ${maxRetries + 1} attempts: ${lastError?.message}`
AudioFailureMessage(g, lastError) ==
    <<"Audio generation failed after", Numeral[g.maxRetries + 1], "attempts:">> \o lastError.message

\* The sanitization level chosen after a content-filter failure.
sanitizationLevel(attempt) == attempt + 1

\* Delay before the next image attempt after a non-content-filter failure.
ImageRetryDelay(attempt) == RetryDelayMs

\* Delay before the next audio attempt.
AudioRetryDelay(attempt) == RetryDelayMs * (attempt + 1)

\* Mutant of ImageRetries: the retry test off by one (<= for <).
ImageRetriesOffByOne(g, error) == g.attempt <= g.maxRetries

\* Whether the catch block of generateImage goes round the loop again.
ImageRetries(g, error) == g.attempt < g.maxRetries

\* Whether the catch block of generateAudio goes round the loop again.
AudioRetries(g, error) == g.attempt < g.maxRetries

\* One iteration of the for loop of generateImage: the request with
\* currentPrompt, then either the return or the catch block.
ImageAttempt(g, outcome) ==
    IF outcome = Ok
    THEN [g EXCEPT !.state = "returned", !.retryAttempt = g.attempt,
                   !.log = Append(@, [prompt |-> g.currentPrompt, outcome |-> outcome, wait |-> 0])]
    ELSE IF isContentFilter(outcome) /\ ImageRetries(g, outcome)
    THEN [g EXCEPT !.lastError = outcome,
                   !.currentPrompt = sanitizePrompt(g.prompt, sanitizationLevel(g.attempt)),
                   !.attempt = @ + 1,
                   !.log = Append(@, [prompt |-> g.currentPrompt, outcome |-> outcome, wait |-> 0])]
    ELSE IF ImageRetries(g, outcome)
    THEN [g EXCEPT !.lastError = outcome,
                   !.attempt = @ + 1,
                   !.log = Append(@, [prompt |-> g.currentPrompt, outcome |-> outcome,
                                      wait |-> ImageRetryDelay(g.attempt)])]
    ELSE [g EXCEPT !.lastError = outcome,
                   !.state = "threw",
                   !.thrown = ImageFailureMessage(g, outcome),
                   !.log = Append(@, [prompt |-> g.currentPrompt, outcome |-> outcome, wait |-> 0])]

\* One iteration of the for loop of generateAudio.
AudioAttempt(g, outcome) ==
    IF outcome = Ok
    THEN [g EXCEPT !.state = "returned", !.retryAttempt = g.attempt,
                   !.log = Append(@, [prompt |-> g.currentPrompt, outcome |-> outcome, wait |-> 0])]
    ELSE IF AudioRetries(g, outcome)
    THEN [g EXCEPT !.lastError = outcome,
                   !.attempt = @ + 1,
                   !.log = Append(@, [prompt |-> g.currentPrompt, outcome |-> outcome,
                                      wait |-> AudioRetryDelay(g.attempt)])]
    ELSE [g EXCEPT !.lastError = outcome,
                   !.attempt = @ + 1,
                   !.state = "threw",
                   !.thrown = AudioFailureMessage(g, outcome),
                   !.log = Append(@, [prompt |-> g.currentPrompt, outcome |-> outcome, wait |-> 0])]


\* The for loop of generateImage run to its end on a schedule of outcomes,
\* one per request.
RECURSIVE RunImage(_, _)
RunImage(g, outcomes) ==
    IF g.state # "running" \/ outcomes = <<>> THEN g
    ELSE RunImage(ImageAttempt(g, Head(outcomes)), Tail(outcomes))

\* The for loop of generateAudio run to its end on a schedule of outcomes.
RECURSIVE RunAudio(_, _)
RunAudio(g, outcomes) ==
    IF g.state # "running" \/ outcomes = <<>> THEN g
    ELSE RunAudio(AudioAttempt(g, Head(outcomes)), Tail(outcomes))

\* --------------------------------------------------------------- the state
VARIABLES
    call,          \* SpecGen: the generateImage / generateAudio call under way
    pc,            \* where generateAllAssets stands
    scenes,        \* video.videoPlan.scenes
    voiceInput,    \* generationInputs.voice || 'neutral_male'
    progress,      \* the in-memory progress object of the run
    finalStatus,   \* the local finalStatus of the run, "" until computed
    assetStatus,   \* persisted video.assetStatus
    assetProgress, \* persisted video.assetProgress
    assetError,    \* persisted video.assetError
    imgTask,       \* per scene: the image task of the fan-out
    audTask,       \* per scene: the audio task of the fan-out
    videoImages,   \* rows of table videoImage created by the run
    videoAudios,   \* rows of table videoAudio created by the run
    faults,        \* storage / database failures injected so far
    dbFailed,      \* a database write of the run has failed
    runs,          \* calls of generateAllAssets made for the video
    video,         \* the video row: the columns renderVideo reads and writes
    attempts,      \* per render request: the controller call and its renderVideo
    dirs,          \* the workspace directories that exist under tempDir
    now            \* the last value Date.now() returned

vars == <<call, pc, scenes, voiceInput, progress, finalStatus, assetStatus,
          assetProgress, assetError, imgTask, audTask, videoImages, videoAudios,
          faults, dbFailed, runs, video, attempts, dirs, now>>

\* The state of the render engine.
renderVars == <<video, attempts, dirs, now>>

runVars == <<pc, scenes, voiceInput, progress, finalStatus, assetStatus,
             assetProgress, assetError, imgTask, audTask, videoImages,
             videoAudios, faults, dbFailed, runs, renderVars>>

\* ------------------------------------------------------------------ SpecGen
NoCall == StartCall("none", <<>>, 0)

\* Narration texts the plans are drawn from: empty, whitespace only, spoken.
Spoken == <<"Good", " ", "evening">>
Narrations == { <<>>, <<" ">>, Spoken }

\* The plans of the runs: scene i asks for one of the two prompts, and a
\* scene without narration has the empty text or a whitespace-only text.
ScenePrompt(i) ==
    IF i % 2 = 1 THEN <<"Gun", " ", "attack", " ", "in", " ", "city">>
    ELSE <<"city", " ", "skyline">>
BlankNarration(i) == IF i % 2 = 1 THEN <<>> ELSE <<" ">>

\* Mutant of InitialProgress: a failure is carried into the new progress.
InitialProgressCarried(totalScenes) ==
    [totalScenes |-> totalScenes, imagesCompleted |-> 0, audioCompleted |-> 0,
     imagesFailed |-> 1, audioFailed |-> 0]

\* The progress object generateAllAssets starts from.
InitialProgress(totalScenes) ==
    [totalScenes |-> totalScenes, imagesCompleted |-> 0, audioCompleted |-> 0,
     imagesFailed |-> 0, audioFailed |-> 0]

\* ------------------------------------------------------ render engine: data
\* Render requests the model follows.
MaxAttempts == 2
Attempts == 1..MaxAttempts

\* Values Date.now() can return while the requests are served.
MaxClock == 1

\* The id of the video the requests are for.
VideoId == "v1"

\* renderProgress of a video that was never rendered.
NoProgress == [stage |-> "", progress |-> 0]

\* The video row after generateVideoPlan stored a plan (videoService.js
\* lines 77-96); exists is FALSE for an id no row has; aspectRatio is
\* generationInputs.aspectRatio.
InitialVideo(exists) ==
    [exists |-> exists, hasPlan |-> exists, status |-> "GENERATED",
     renderProgress |-> NoProgress, errorMessage |-> <<>>,
     videoUrl |-> <<>>, thumbnailUrl |-> <<>>, aspectRatio |-> "16:9"]

\* A render request not yet made.  pc: where the controller call and then
\* renderVideo stand; seen: the assetStatus the controller read; images and
\* audio: the scene numbers of imageMap and audioMap; i: the index of the
\* scene loop (1-based); workDir: <<>> for null; error: the error the catch
\* block caught; raised: the error renderVideo rejected with; stages: the
\* stages the attempts wrote to renderProgress, in order; rendering: the
\* scenes whose clip process was spawned and has not ended; clips: the
\* calls of createSceneClip made, in order; imageMap and audioMap: the row
\* each map holds per scene number.
NewAttempt ==
    [pc |-> "idle", seen |-> "", images |-> {}, audio |-> {}, i |-> 0,
     clipPaths |-> <<>>, workDir |-> <<>>, error |-> <<>>, raised |-> <<>>,
     stages |-> <<>>, rendering |-> {}, clips |-> <<>>, imageMap |-> <<>>,
     audioMap |-> <<>>]

\* No render request is made.
NoRender ==
    /\ video = InitialVideo(TRUE)
    /\ attempts = [a \in Attempts |-> NewAttempt]
    /\ dirs = {}
    /\ now = 0

\* No run: the video row as created, before any plan.
NoRun ==
    /\ pc = "off"
    /\ scenes = <<>>
    /\ voiceInput = "neutral_male"
    /\ progress = InitialProgress(0)
    /\ finalStatus = ""
    /\ assetStatus = "PENDING"
    /\ assetProgress = InitialProgress(0)
    /\ assetError = <<>>
    /\ imgTask = <<>>
    /\ audTask = <<>>
    /\ videoImages = {}
    /\ videoAudios = {}
    /\ faults = 0
    /\ dbFailed = FALSE
    /\ runs = 0
    /\ NoRender

GenInit ==
    /\ \E m \in 0..DefaultMaxRetries :
          \/ \E p \in Prompts : call = StartCall("image", p, m)
          \/ call = StartCall("audio", Spoken, m)
    /\ NoRun

\* generateImage: one request and what follows it in the loop body.
GenImageStep ==
    /\ call.kind = "image"
    /\ call.state = "running"
    /\ \E o \in ImageOutcomes : call' = ImageAttempt(call, o)
    /\ UNCHANGED runVars

\* generateAudio: one request and what follows it in the loop body.
GenAudioStep ==
    /\ call.kind = "audio"
    /\ call.state = "running"
    /\ \E o \in AudioOutcomes : call' = AudioAttempt(call, o)
    /\ UNCHANGED runVars

GenNext == GenImageStep \/ GenAudioStep

SpecGen == GenInit /\ [][GenNext]_vars


\* ------------------------------------------------- generateAllAssets: data
\* What a request can come back with inside a run (a subset of ImageOutcomes
\* and AudioOutcomes that takes every branch of the two loops).
RunImageOutcomes == {Ok, ErrBlocked, ErrTransient}
RunAudioOutcomes == {Ok, ErrTransient}

\* What a whole generateImage call of a run can end in, per prompt.
ImageCallResults ==
    [p \in Prompts |->
        { RunImage(StartCall("image", p, DefaultMaxRetries), o) :
            o \in [1..(DefaultMaxRetries + 1) -> RunImageOutcomes] }]

\* What a whole generateAudio call of a run can end in, per narration.
AudioCallResults ==
    [t \in Narrations |->
        { RunAudio(StartCall("audio", t, DefaultMaxRetries), o) :
            o \in [1..(DefaultMaxRetries + 1) -> RunAudioOutcomes] }]

\* error.message of a failed s3Service upload
UploadFailed == <<"S3", "upload", "failed">>
\* error.message of a failed prisma write
WriteFailed == <<"database", "write", "failed">>

\* s3Key returned by s3Service.uploadImage / uploadAudio
S3Key(kind, sceneNumber) == <<kind, sceneNumber>>

\* The rows carry the call of generateAllAssets that created them (run), in
\* place of their id and createdAt.

\* Values of generationInputs.aspectRatio: the three the code names, one it
\* does not, and "" for a missing one.
AspectRatios == {"16:9", "9:16", "1:1", "4:3", ""}

\* generationInputs.aspectRatio || '16:9' (line 392, and line 216 of
\* ffmpegRenderService.js)
OrDefault(aspectRatio) == IF aspectRatio = "" THEN "16:9" ELSE aspectRatio

\* Lines 217-223 and 244: the size asked of the image service, as
\* <<width, height>>.
ImageSize(aspectRatio) ==
    IF aspectRatio = "16:9" THEN <<1792, 1024>>
    ELSE IF aspectRatio = "9:16" THEN <<1024, 1792>>
    ELSE <<1024, 1024>>

\* prisma.videoImage.create, success variant (lines 247-261)
ImageRecord(scene) ==
    [sceneNumber |-> scene.sceneNumber, imagePrompt |-> scene.imagePrompt,
     s3Key |-> S3Key("image", scene.sceneNumber), errorMessage |-> <<>>,
     run |-> runs,
     width |-> ImageSize(OrDefault(video.aspectRatio))[1],
     height |-> ImageSize(OrDefault(video.aspectRatio))[2]]

\* prisma.videoImage.create, failure variant (lines 268-277)
ImageErrorRecord(scene, message) ==
    [sceneNumber |-> scene.sceneNumber, imagePrompt |-> scene.imagePrompt,
     s3Key |-> <<>>, errorMessage |-> message, run |-> runs]

\* prisma.videoAudio.create, success variant (lines 318-330)
AudioRecord(scene) ==
    [sceneNumber |-> scene.sceneNumber, narrationText |-> scene.narration,
     s3Key |-> S3Key("audio", scene.sceneNumber), errorMessage |-> <<>>,
     run |-> runs]

\* prisma.videoAudio.create, failure variant (lines 337-346)
AudioErrorRecord(scene, message) ==
    [sceneNumber |-> scene.sceneNumber, narrationText |-> scene.narration,
     s3Key |-> <<>>, errorMessage |-> message, run |-> runs]

\* !narration || narration.trim().length === 0
NoNarration(narration) == Trim(CollapseSpaces(narration)) = <<>>

\* Mutant of FinalStatus: FAILED as soon as one of the two counters is 0.
FinalStatusEitherZero(p) ==
    IF p.imagesCompleted = 0 \/ p.audioCompleted = 0 THEN "FAILED"
    ELSE IF p.imagesFailed > 0 \/ p.audioFailed > 0 THEN "PARTIAL"
    ELSE "COMPLETED"

\* Mutant of FinalStatus: the PARTIAL test looks at the audio failures only.
FinalStatusAudioOnly(p) ==
    IF p.imagesCompleted = 0 /\ p.audioCompleted = 0 THEN "FAILED"
    ELSE IF p.audioFailed > 0 THEN "PARTIAL"
    ELSE "COMPLETED"

\* generateAllAssets, "Determine final status"
FinalStatus(p) ==
    IF p.imagesCompleted = 0 /\ p.audioCompleted = 0 THEN "FAILED"
    ELSE IF p.imagesFailed > 0 \/ p.audioFailed > 0 THEN "PARTIAL"
    ELSE "COMPLETED"

\* The assetError persisted with the final status.
FinalError(status) ==
    CASE status = "FAILED" -> <<"All asset generation failed">>
      [] status = "PARTIAL" -> <<"Some assets failed">>
      [] OTHER -> <<>>

\* A task of the fan-out.  pc: "none" before the fan-out, "pending" while
\* generateAndStore* runs, "snap" / "snap2" while the updateProgress of the
\* try block / of the catch block is in flight, "done" once the task's
\* promise is fulfilled, "rejected" once it is rejected.  snap is the
\* progress the write in flight carries and counted the field of progress the
\* task incremented before issuing it; called says that the task issued a
\* generation request, blocked3 that its generateImage call returned after
\* three content-policy rejections, writes counts the updateProgress calls
\* the task has issued.
NewTask(pcv) ==
    [pc |-> pcv, snap |-> InitialProgress(0), counted |-> "", called |-> FALSE,
     blocked3 |-> FALSE, writes |-> 0]

\* Mutant of TaskWrite: the catch block issues no progress write.
TaskWriteInTryOnly(threw) == IF threw THEN 0 ELSE 1

\* Lines 443 and 452 (496 and 504): a task that has counted its scene calls
\* updateProgress, from the try block or, when generateAndStore threw, from
\* the catch block.
TaskWrite(threw) == 1

\* A task whose promise has settled: no write in flight any more.
Settled(task, pcv) ==
    [NewTask(pcv) EXCEPT !.called = task.called, !.writes = task.writes]

Scenes == 1..Len(scenes)

\* Content-policy rejections among the requests of a call.
BlockedCount(g) ==
    Cardinality({i \in 1..Len(g.log) : g.log[i].outcome.status = 400})


\* The call returned on its fourth request, after three content-policy
\* rejections.
BlockedThrice(g) == g.state = "returned" /\ BlockedCount(g) = 3

\* --------------------------------------------------- generateAllAssets: run
Init ==
    /\ call = NoCall
    /\ pc = "idle"
    /\ \E n \in 1..MaxScenes :
         \E narrated \in SUBSET (1..n) :
            scenes = [i \in 1..n |->
                        [sceneNumber |-> i, imagePrompt |-> ScenePrompt(i),
                         narration |-> IF i \in narrated THEN Spoken
                                       ELSE BlankNarration(i)]]
    /\ voiceInput \in {"none", "neutral_male"}
    /\ progress = InitialProgress(0)
    /\ finalStatus = ""
    /\ assetStatus = "PENDING"
    /\ assetProgress = InitialProgress(0)
    /\ assetError = <<>>
    /\ imgTask = [i \in Scenes |-> NewTask("none")]
    /\ audTask = [i \in Scenes |-> NewTask("none")]
    /\ videoImages = {}
    /\ videoAudios = {}
    /\ faults = 0
    /\ dbFailed = FALSE
    /\ runs = 0
    /\ NoRender

\* updateProgress(videoId, progress) resolving or rejecting: a write that
\* fails leaves the row as it was.
Persisted(ok, snapshot) == IF ok THEN snapshot ELSE assetProgress

\* Mutant of Recorded: the catch block rethrows without writing the error row.
RecordedOnSuccessOnly(stored, createError) == stored

\* generateAndStoreImage / generateAndStoreAudio leave a row behind: the
\* success row, or else the error row their catch block creates (264-280,
\* 333-349), unless that create fails as well.
Recorded(stored, createError) == stored \/ createError

\* Lines 373-455: load the video, write GENERATING with the zeroed progress,
\* and start one image task per scene.  A failed write rejects the run.
StartRun ==
    /\ pc = "idle"
    /\ \E ok \in BOOLEAN :
         /\ ~ok => faults < MaxFaults
         /\ faults' = IF ok THEN faults ELSE faults + 1
         /\ dbFailed' = (dbFailed \/ ~ok)
         /\ runs' = runs + 1
         /\ progress' = InitialProgress(Len(scenes))
         /\ IF ok
            THEN /\ assetStatus' = "GENERATING"
                 /\ assetProgress' = InitialProgress(Len(scenes))
                 /\ assetError' = <<>>
                 /\ imgTask' = [i \in Scenes |-> NewTask("pending")]
                 /\ pc' = "images"
            ELSE /\ UNCHANGED <<assetStatus, assetProgress, assetError, imgTask>>
                 /\ pc' = "rejected"
    /\ UNCHANGED <<video, attempts, dirs, now, call, scenes, voiceInput, finalStatus, audTask, videoImages, videoAudios>>

\* Lines 423-455 with generateAndStoreImage (214-281), up to the first
\* updateProgress: generate, upload, create the row (the error row on any
\* failure), count the task and issue the progress write.
ImageTask(s) ==
    /\ imgTask[s].pc = "pending"
    /\ \E g \in ImageCallResults[scenes[s].imagePrompt], upload \in BOOLEAN,
          create \in BOOLEAN, createError \in BOOLEAN :
         LET generated == g.state = "returned"
             stored == generated /\ upload /\ create
             message == IF ~generated THEN g.thrown
                        ELSE IF ~upload THEN UploadFailed ELSE WriteFailed
             recorded == Recorded(stored, createError)
             lost == (generated /\ upload /\ ~create) \/ (~stored /\ ~createError)
             injected == (IF generated /\ ~upload THEN 1 ELSE 0)
                         + (IF generated /\ upload /\ ~create THEN 1 ELSE 0)
                         + (IF ~stored /\ ~createError THEN 1 ELSE 0)
             record == IF stored THEN ImageRecord(scenes[s])
                       ELSE ImageErrorRecord(scenes[s], message)
             field == IF recorded /\ record.errorMessage = <<>>
                      THEN "imagesCompleted" ELSE "imagesFailed"
             counted == [progress EXCEPT ![field] = @ + 1]
         IN  /\ (~generated \/ ~upload) => create
             /\ ~generated => upload
             /\ stored => createError
             /\ faults + injected <= MaxFaults
             /\ faults' = faults + injected
             /\ dbFailed' = (dbFailed \/ lost)
             /\ videoImages' = IF recorded THEN videoImages \cup {record} ELSE videoImages
             /\ progress' = counted
             /\ imgTask' = [imgTask EXCEPT ![s] =
                   [pc |-> IF recorded THEN "snap" ELSE "snap2", snap |-> counted,
                    counted |-> field, called |-> TRUE, blocked3 |-> BlockedThrice(g),
                    writes |-> TaskWrite(~recorded)]]
    /\ UNCHANGED <<runs, video, attempts, dirs, now, call, pc, scenes, voiceInput, finalStatus, assetStatus,
                   assetProgress, assetError, audTask, videoAudios>>

\* Lines 443-453: the updateProgress of the try block settles.  When it
\* rejects, the catch block counts the task as failed and issues its own
\* updateProgress.
ImageSnapshot(s) ==
    /\ imgTask[s].pc = "snap"
    /\ \E ok \in BOOLEAN :
         /\ ~ok => faults < MaxFaults
         /\ faults' = IF ok THEN faults ELSE faults + 1
         /\ dbFailed' = (dbFailed \/ ~ok)
         /\ assetProgress' = Persisted(ok, imgTask[s].snap)
         /\ IF ok
            THEN /\ imgTask' = [imgTask EXCEPT ![s] = Settled(imgTask[s], "done")]
                 /\ UNCHANGED progress
            ELSE LET counted == [progress EXCEPT !.imagesFailed = @ + 1]
                 IN  /\ progress' = counted
                     /\ imgTask' = [imgTask EXCEPT ![s].pc = "snap2", ![s].snap = counted,
                                                   ![s].counted = "imagesFailed",
                                                   ![s].writes = 2]
    /\ UNCHANGED <<runs, video, attempts, dirs, now, call, pc, scenes, voiceInput, finalStatus, assetStatus,
                   assetError, audTask, videoImages, videoAudios>>

\* Mutant of AllFulfilled: the join waits for the task of the first scene
\* only.
FirstFulfilled(task) == task[1].pc = "done"

\* Mutant of AllFulfilled: the join goes on with the first task fulfilled.
AnyFulfilled(task) == \E s \in Scenes : task[s].pc = "done"

\* Lines 458 and 509: await Promise.all(...) resumes when every task of the
\* batch is fulfilled.
AllFulfilled(task) == \A s \in Scenes : task[s].pc = "done"

\* Promise.all of a batch rejects with the first task that rejects.
Joined(batch, taskOk) == IF pc = batch /\ ~taskOk THEN "rejected" ELSE pc

\* Lines 452-453: the updateProgress of the catch block settles.  When it
\* rejects, the task rejects and with it Promise.all and the run.
ImageSnapshot2(s) ==
    /\ imgTask[s].pc = "snap2"
    /\ \E ok \in BOOLEAN :
         /\ ~ok => faults < MaxFaults
         /\ faults' = IF ok THEN faults ELSE faults + 1
         /\ dbFailed' = (dbFailed \/ ~ok)
         /\ assetProgress' = Persisted(ok, imgTask[s].snap)
         /\ imgTask' = [imgTask EXCEPT ![s] =
                        Settled(imgTask[s], IF ok THEN "done" ELSE "rejected")]
         /\ pc' = Joined("images", ok)
    /\ UNCHANGED <<runs, video, attempts, dirs, now, call, scenes, voiceInput, progress, finalStatus, assetStatus,
                   assetError, audTask, videoImages, videoAudios>>


\* Mutant of SkipsAudio: the sentinel misspelt, so that it never matches.
SkipsAudioMisspelt == voiceInput = "None"

\* Line 462: voiceInput === 'none'
SkipsAudio == voiceInput = "none"

\* Lines 457-470: the image batch has settled.  With voice "none" the audio
\* counter is set to totalScenes and one progress write is issued; otherwise
\* one audio task per scene is started.
JoinImages ==
    /\ pc = "images"
    /\ AllFulfilled(imgTask)
    /\ IF SkipsAudio
       THEN /\ progress' = [progress EXCEPT !.audioCompleted = progress.totalScenes]
            /\ pc' = "skipAudio"
            /\ UNCHANGED audTask
       ELSE /\ audTask' = [i \in Scenes |-> NewTask("pending")]
            /\ pc' = "audio"
            /\ UNCHANGED progress
    /\ UNCHANGED <<runs, video, attempts, dirs, now, call, scenes, voiceInput, finalStatus, assetStatus, assetProgress,
                   assetError, imgTask, videoImages, videoAudios, faults, dbFailed>>

\* Lines 466 and 514-524: the progress write of the voice "none" branch
\* settles; the run goes on to compute its final status, or rejects.
SkipAudioSnapshot ==
    /\ pc = "skipAudio"
    /\ \E ok \in BOOLEAN :
         /\ ~ok => faults < MaxFaults
         /\ faults' = IF ok THEN faults ELSE faults + 1
         /\ dbFailed' = (dbFailed \/ ~ok)
         /\ assetProgress' = Persisted(ok, progress)
         /\ finalStatus' = IF ok THEN FinalStatus(progress) ELSE finalStatus
         /\ pc' = IF ok THEN "final" ELSE "rejected"
    /\ UNCHANGED <<runs, video, attempts, dirs, now, call, scenes, voiceInput, progress, assetStatus, assetError,
                   imgTask, audTask, videoImages, videoAudios>>

\* Lines 470-507 with generateAndStoreAudio (291-350), up to the first
\* updateProgress: skip a scene without narration, else generate, upload,
\* create the row (the error row on any failure); count the task and issue
\* the progress write.
AudioTask(s) ==
    /\ audTask[s].pc = "pending"
    /\ \E g \in AudioCallResults[scenes[s].narration], upload \in BOOLEAN,
          create \in BOOLEAN, createError \in BOOLEAN :
         LET skipped == NoNarration(scenes[s].narration)
             generated == g.state = "returned"
             stored == ~skipped /\ generated /\ upload /\ create
             message == IF ~generated THEN g.thrown
                        ELSE IF ~upload THEN UploadFailed ELSE WriteFailed
             recorded == ~skipped /\ Recorded(stored, createError)
             threw == ~skipped /\ ~recorded
             lost == ~skipped /\ ((generated /\ upload /\ ~create)
                                  \/ (~stored /\ ~createError))
             injected == IF skipped THEN 0
                         ELSE (IF generated /\ ~upload THEN 1 ELSE 0)
                              + (IF generated /\ upload /\ ~create THEN 1 ELSE 0)
                              + (IF ~stored /\ ~createError THEN 1 ELSE 0)
             record == IF stored THEN AudioRecord(scenes[s])
                       ELSE AudioErrorRecord(scenes[s], message)
             field == IF skipped \/ (recorded /\ record.errorMessage = <<>>)
                      THEN "audioCompleted" ELSE "audioFailed"
             counted == [progress EXCEPT ![field] = @ + 1]
         IN  /\ (skipped \/ ~generated \/ ~upload) => create
             /\ (skipped \/ ~generated) => upload
             /\ (skipped \/ stored) => createError
             /\ skipped => g.log[1].outcome = Ok
             /\ faults + injected <= MaxFaults
             /\ faults' = faults + injected
             /\ dbFailed' = (dbFailed \/ lost)
             /\ videoAudios' = IF recorded THEN videoAudios \cup {record} ELSE videoAudios
             /\ progress' = counted
             /\ audTask' = [audTask EXCEPT ![s] =
                   [pc |-> IF threw THEN "snap2" ELSE "snap", snap |-> counted,
                    counted |-> field, called |-> ~skipped, blocked3 |-> FALSE,
                    writes |-> TaskWrite(threw)]]
    /\ UNCHANGED <<runs, video, attempts, dirs, now, call, pc, scenes, voiceInput, finalStatus, assetStatus,
                   assetProgress, assetError, imgTask, videoImages>>

\* Lines 495-505: the updateProgress of the try block of an audio task
\* settles; on rejection the catch block counts a failure and writes again.
AudioSnapshot(s) ==
    /\ audTask[s].pc = "snap"
    /\ \E ok \in BOOLEAN :
         /\ ~ok => faults < MaxFaults
         /\ faults' = IF ok THEN faults ELSE faults + 1
         /\ dbFailed' = (dbFailed \/ ~ok)
         /\ assetProgress' = Persisted(ok, audTask[s].snap)
         /\ IF ok
            THEN /\ audTask' = [audTask EXCEPT ![s] = Settled(audTask[s], "done")]
                 /\ UNCHANGED progress
            ELSE LET counted == [progress EXCEPT !.audioFailed = @ + 1]
                 IN  /\ progress' = counted
                     /\ audTask' = [audTask EXCEPT ![s].pc = "snap2", ![s].snap = counted,
                                                   ![s].counted = "audioFailed",
                                                   ![s].writes = 2]
    /\ UNCHANGED <<runs, video, attempts, dirs, now, call, pc, scenes, voiceInput, finalStatus, assetStatus,
                   assetError, imgTask, videoImages, videoAudios>>

\* Lines 504-505: the updateProgress of the catch block of an audio task
\* settles; on rejection the task, Promise.all and the run reject.
AudioSnapshot2(s) ==
    /\ audTask[s].pc = "snap2"
    /\ \E ok \in BOOLEAN :
         /\ ~ok => faults < MaxFaults
         /\ faults' = IF ok THEN faults ELSE faults + 1
         /\ dbFailed' = (dbFailed \/ ~ok)
         /\ assetProgress' = Persisted(ok, audTask[s].snap)
         /\ audTask' = [audTask EXCEPT ![s] =
                        Settled(audTask[s], IF ok THEN "done" ELSE "rejected")]
         /\ pc' = Joined("audio", ok)
    /\ UNCHANGED <<runs, video, attempts, dirs, now, call, scenes, voiceInput, progress, finalStatus, assetStatus,
                   assetError, imgTask, videoImages, videoAudios>>

\* Lines 510-524: the audio batch has settled; compute the final status.
JoinAudio ==
    /\ pc = "audio"
    /\ AllFulfilled(audTask)
    /\ finalStatus' = FinalStatus(progress)
    /\ pc' = "final"
    /\ UNCHANGED <<runs, video, attempts, dirs, now, call, scenes, voiceInput, progress, assetStatus, assetProgress,
                   assetError, imgTask, audTask, videoImages, videoAudios, faults, dbFailed>>

\* Lines 527-536: the final write settles; the run returns or rejects.
FinalWrite ==
    /\ pc = "final"
    /\ \E ok \in BOOLEAN :
         /\ ~ok => faults < MaxFaults
         /\ faults' = IF ok THEN faults ELSE faults + 1
         /\ dbFailed' = (dbFailed \/ ~ok)
         /\ assetStatus' = IF ok THEN finalStatus ELSE assetStatus
         /\ assetProgress' = Persisted(ok, progress)
         /\ assetError' = IF ok THEN FinalError(finalStatus) ELSE assetError
         /\ pc' = IF ok THEN "done" ELSE "rejected"
    /\ UNCHANGED <<runs, video, attempts, dirs, now, call, scenes, voiceInput, progress, finalStatus, imgTask,
                   audTask, videoImages, videoAudios>>

\* assetError written by the caller of a run that rejected
\* (videoService.js line 128).
RejectedError == <<"Asset generation failed">>

\* videoService.js lines 124-130: the write of FAILED by the caller's catch
\* handler takes effect only when it resolves; its own rejection is logged
\* (.catch(console.error)) and nothing else is done.
CatchWrites(ok) == ok

\* videoService.js lines 119-131: generateAllAssets was started without
\* await; when its promise rejects, the catch handler writes FAILED.
CatchRejected ==
    /\ pc = "rejected"
    /\ \E ok \in BOOLEAN :
         /\ ~ok => faults < MaxFaults
         /\ faults' = IF ok THEN faults ELSE faults + 1
         /\ dbFailed' = (dbFailed \/ ~ok)
         /\ assetStatus' = IF CatchWrites(ok) THEN "FAILED" ELSE assetStatus
         /\ assetError' = IF CatchWrites(ok) THEN RejectedError ELSE assetError
         /\ pc' = "caught"
    /\ UNCHANGED <<runs, video, attempts, dirs, now, call, scenes, voiceInput, progress, finalStatus, assetProgress,
                   imgTask, audTask, videoImages, videoAudios>>

Next ==
    \/ StartRun
    \/ \E s \in Scenes : ImageTask(s)
    \/ \E s \in Scenes : ImageSnapshot(s)
    \/ \E s \in Scenes : ImageSnapshot2(s)
    \/ JoinImages
    \/ SkipAudioSnapshot
    \/ \E s \in Scenes : AudioTask(s)
    \/ \E s \in Scenes : AudioSnapshot(s)
    \/ \E s \in Scenes : AudioSnapshot2(s)
    \/ JoinAudio
    \/ FinalWrite
    \/ CatchRejected

Spec == Init /\ [][Next]_vars

\* Every promise that is pending settles: each external call returns or
\* throws, and the event loop runs every continuation that is ready.
FairSpec == Spec /\ WF_vars(Next)


\* ============================================================ render engine
\* error.message of the failures of renderVideo
VideoNotFound == <<"Video not found">>
PlanNotFound == <<"Video plan not found">>
NoValidImages == <<"No valid images to render">>
NoClips == <<"No clips were generated">>
TransformFailed == <<"FFmpeg exited with code">>
MkdirFailed == <<"mkdir failed">>
DownloadFailed == <<"Failed to download from S3">>

\* videoController.js line 333: the asset statuses a render is accepted for.
UsableStatus == {"COMPLETED", "PARTIAL"}

\* createWorkingDir: path.join(tempDir, `render-${videoId}-${Date.now()}`)
WorkDirName(videoId, t) == <<"render", videoId, t>>

\* s3Url of an uploaded buffer (generateKey(prefix, videoId, ext))
S3Url(prefix, videoId) == <<prefix, videoId>>

\* Math.round(a / b) for a >= 0, b > 0
Round(a, b) == (2 * a + b) \div (2 * b)

\* Mutant of SceneProgressPercent: the scene that is reached counts as done.
SceneProgressPercentNext(i, n) == Round((i + 1) * 80, n)

\* Percentage written when the scene at 0-based index i of n is reached.
SceneProgressPercent(i, n) == Round(i * 80, n)

\* The renderProgress values renderVideo writes.
Preparing == [stage |-> "PREPARING", progress |-> 0]
RenderingScenes(sceneNumber, i, n) ==
    [stage |-> "RENDERING_SCENES", currentScene |-> sceneNumber,
     totalScenes |-> n, progress |-> SceneProgressPercent(i, n)]
Concatenating == [stage |-> "CONCATENATING", progress |-> 85]
GeneratingThumbnail == [stage |-> "GENERATING_THUMBNAIL", progress |-> 90]
Uploading == [stage |-> "UPLOADING", progress |-> 95]
Completed == [stage |-> "COMPLETED", progress |-> 100]
Failed(message) == [stage |-> "FAILED", error |-> message]

\* Mutant of ValidScenes: every row counts, failed ones included.
ValidScenesAnyRow(rows) == {r.sceneNumber : r \in rows}

\* img.s3Key && !img.errorMessage, as scene numbers (lines 203, 219-223)
ValidScenes(rows) ==
    {r.sceneNumber : r \in {x \in rows : x.s3Key # <<>> /\ x.errorMessage = <<>>}}

\* Lines 218-223 over the rows read at 192-198: each map keeps, per scene
\* number, the last usable row in the order of the query, which sorts by
\* sceneNumber only and leaves the order of rows of one scene open.
RowMaps(rows) ==
    LET valid == {x \in rows : x.s3Key # <<>> /\ x.errorMessage = <<>>}
        RECURSIVE Maps(_)
        Maps(keys) ==
            IF keys = {} THEN {<<>>}
            ELSE LET s == CHOOSE k \in keys : TRUE
                 IN  {[k \in keys |-> IF k = s THEN x ELSE m[k]] :
                        x \in {y \in valid : y.sceneNumber = s},
                        m \in Maps(keys \ {s})}
    IN  Maps({x.sceneNumber : x \in valid})

\* An external call fails within the budget of injected failures.
Inject(ok) ==
    /\ ~ok => faults < MaxFaults
    /\ faults' = IF ok THEN faults ELSE faults + 1

\* An error is thrown inside the try block: control passes to the catch block.
Throw(att, message) == [att EXCEPT !.pc = "catch", !.error = message]

\* A stage was written by the attempts.
Wrote(att, stage) == [att EXCEPT !.stages = Append(@, stage)]

\* Mutant of AfterScene: the loop is left for the thumbnail stage.
AfterSceneSkipsConcat(i) == IF i < Len(scenes) THEN "scene" ELSE "thumbnail"

\* Where the scene loop goes after the scene at 1-based index i.
AfterScene(i) == IF i < Len(scenes) THEN "scene" ELSE "concat"

\* What the render engine leaves alone.
assetVars == <<call, pc, scenes, voiceInput, progress, finalStatus, assetProgress,
               assetError, imgTask, audTask, videoImages, videoAudios, dbFailed,
               runs>>

\* videoController.js lines 317-323: a render request arrives and the
\* controller reads the video; getVideoById throws when there is no row.
ControllerRead(a) ==
    /\ attempts[a].pc = "idle"
    /\ a > 1 => attempts[a - 1].pc # "idle"
    /\ attempts' = [attempts EXCEPT ![a] =
          IF video.exists
          THEN [@ EXCEPT !.pc = "checked", !.seen = assetStatus]
          ELSE [@ EXCEPT !.pc = "refused"]]
    /\ UNCHANGED <<assetVars, assetStatus, faults, video, dirs, now>>

\* videoController.js lines 333-344: the check of the status that was read,
\* and the call of ffmpegRenderService.renderVideo without await.
ControllerStart(a) ==
    /\ attempts[a].pc = "checked"
    /\ attempts' = [attempts EXCEPT ![a].pc =
          IF attempts[a].seen \in UsableStatus THEN "load" ELSE "refused"]
    /\ UNCHANGED <<assetVars, assetStatus, faults, video, dirs, now>>

\* Lines 192-204: load the video with its rows and check the preconditions.
Load(a) ==
    /\ attempts[a].pc = "load"
    /\ \E ok \in BOOLEAN, im \in RowMaps(videoImages), am \in RowMaps(videoAudios) :
         /\ Inject(ok)
         /\ attempts' = [attempts EXCEPT ![a] =
              IF ~ok THEN Throw(@, WriteFailed)
              ELSE IF ~video.exists THEN Throw(@, VideoNotFound)
              ELSE IF ~video.hasPlan THEN Throw(@, PlanNotFound)
              ELSE IF ValidScenes(videoImages) = {} THEN Throw(@, NoValidImages)
              ELSE [@ EXCEPT !.pc = "prepare", !.images = ValidScenes(videoImages),
                             !.audio = ValidScenes(videoAudios),
                             !.imageMap = im, !.audioMap = am]]
    /\ UNCHANGED <<assetVars, assetStatus, video, dirs, now>>

\* Lines 206-209: the write of status GENERATING and stage PREPARING.
Prepare(a) ==
    /\ attempts[a].pc = "prepare"
    /\ \E ok \in BOOLEAN :
         /\ Inject(ok)
         /\ IF ok
            THEN /\ video' = [video EXCEPT !.status = "GENERATING",
                                           !.renderProgress = Preparing,
                                           !.errorMessage = <<>>]
                 /\ attempts' = [attempts EXCEPT ![a] =
                                  [Wrote(@, "PREPARING") EXCEPT !.pc = "mkdir"]]
            ELSE /\ attempts' = [attempts EXCEPT ![a] = Throw(@, WriteFailed)]
                 /\ UNCHANGED video
    /\ UNCHANGED <<assetVars, assetStatus, dirs, now>>

\* Lines 211-212 with createWorkingDir (19-23): the directory is named after
\* the video and the millisecond; mkdir with recursive: true succeeds when
\* the directory exists already.
MakeWorkDir(a) ==
    /\ attempts[a].pc = "mkdir"
    /\ \E t \in now..MaxClock, ok \in BOOLEAN :
         /\ Inject(ok)
         /\ now' = t
         /\ IF ok
            THEN /\ dirs' = dirs \cup {WorkDirName(VideoId, t)}
                 /\ attempts' = [attempts EXCEPT ![a].pc = "scene", ![a].i = 1,
                                  ![a].workDir = WorkDirName(VideoId, t)]
            ELSE /\ attempts' = [attempts EXCEPT ![a] = Throw(@, MkdirFailed)]
                 /\ UNCHANGED dirs
    /\ UNCHANGED <<assetVars, assetStatus, video>>

\* The workspace of the attempts is on disk.
WorkDirThere(att) == att.workDir \in dirs

\* One stage of lines 275-307: the write of the stage to renderProgress and
\* then the work of the stage in the workspace.  r says what happens: "ok",
\* "write" (the progress write rejects) or "op" (the work throws, as it must
\* when the workspace is gone).
StageStep(a, from, stage, value, to, opError) ==
    /\ attempts[a].pc = from
    /\ \E r \in {"ok", "write", "op"} :
         LET injected == r = "write" \/ (r = "op" /\ WorkDirThere(attempts[a]))
         IN  /\ r = "ok" => WorkDirThere(attempts[a])
             /\ injected => faults < MaxFaults
             /\ faults' = IF injected THEN faults + 1 ELSE faults
             /\ IF r = "write"
                THEN /\ attempts' = [attempts EXCEPT ![a] = Throw(@, WriteFailed)]
                     /\ UNCHANGED video
                ELSE /\ video' = [video EXCEPT !.renderProgress = value]
                     /\ attempts' = [attempts EXCEPT ![a] =
                          IF r = "ok" THEN [Wrote(@, stage) EXCEPT !.pc = to]
                          ELSE Throw(Wrote(@, stage), opError)]
    /\ UNCHANGED <<assetVars, assetStatus, dirs, now>>

\* Mutant of Skipped: only the audio is looked at.
SkippedAudioOnly(att, sceneNumber) == sceneNumber \notin att.audio

\* Mutant of Skipped: only the image is looked at.
SkippedImageOnly(att, sceneNumber) == sceneNumber \notin att.images

\* Lines 238-249: imageMap.get / audioMap.get of the scene number; the scene
\* is passed over when either is missing.
Skipped(att, sceneNumber) ==
    sceneNumber \notin att.images \/ sceneNumber \notin att.audio

\* Lines 227-249: the head of the scene loop: the progress write, then the
\* scene is skipped when its image or its audio is missing.
SceneProgress(a) ==
    /\ attempts[a].pc = "scene"
    /\ LET i == attempts[a].i
           sceneNumber == scenes[i].sceneNumber
           skip == Skipped(attempts[a], sceneNumber)
       IN  \E ok \in BOOLEAN :
             /\ Inject(ok)
             /\ IF ok
                THEN /\ video' = [video EXCEPT !.renderProgress =
                                    RenderingScenes(sceneNumber, i - 1, Len(scenes))]
                     /\ attempts' = [attempts EXCEPT ![a] =
                          IF skip
                          THEN [Wrote(@, "RENDERING_SCENES") EXCEPT
                                   !.i = i + 1, !.pc = AfterScene(i)]
                          ELSE [Wrote(@, "RENDERING_SCENES") EXCEPT !.pc = "clip"]]
                ELSE /\ attempts' = [attempts EXCEPT ![a] = Throw(@, WriteFailed)]
                     /\ UNCHANGED video
    /\ UNCHANGED <<assetVars, assetStatus, dirs, now>>

\* Mutant of effects: the effects in the order zoom in, zoom out, pan left,
\* pan right, zoom with pan.
effectsZoomsFirst == <<"zoomIn", "zoomOut", "panLeft", "panRight", "kenBurns">>

\* Line 260: const effects = [...]
effects == <<"zoomIn", "panRight", "zoomOut", "panLeft", "kenBurns">>

\* Line 261: effects[i % effects.length], i the 0-based index of the scene.
effectType(i) == effects[(i % Len(effects)) + 1]

\* Lines 87-89 of createSceneClip: the resolution of the clip, as
\* <<width, height>>.
Resolution(aspectRatio) ==
    IF aspectRatio = "9:16" THEN <<1080, 1920>>
    ELSE IF aspectRatio = "1:1" THEN <<1080, 1080>>
    ELSE <<1920, 1080>>

\* Line 264: the arguments of createSceneClip for the scene at 0-based
\* index i that are not paths, with the resolution it renders at.
ClipCall(i) ==
    [index |-> i, effectType |-> effectType(i),
     width |-> Resolution(OrDefault(video.aspectRatio))[1],
     height |-> Resolution(OrDefault(video.aspectRatio))[2]]

\* Mutant of AwaitsClip: the loop goes on without waiting for the clip.
AwaitsClipNot == FALSE

\* Line 264: createSceneClip is awaited.
AwaitsClip == TRUE

\* Lines 251-264: download the image and the audio of the scene into the
\* workspace and spawn the process that renders the clip.
SceneClip(a) ==
    /\ attempts[a].pc = "clip"
    /\ LET i == attempts[a].i
           there == WorkDirThere(attempts[a])
       IN  \E ok \in BOOLEAN :
             /\ ok => there
             /\ (~ok /\ there) => faults < MaxFaults
             /\ faults' = IF ~ok /\ there THEN faults + 1 ELSE faults
             /\ attempts' = [attempts EXCEPT ![a] =
                  IF ~ok THEN Throw(@, DownloadFailed)
                  ELSE IF AwaitsClip
                  THEN [@ EXCEPT !.rendering = @ \cup {scenes[i].sceneNumber},
                                 !.clips = Append(@, ClipCall(i - 1)),
                                 !.pc = "render"]
                  ELSE [@ EXCEPT !.rendering = @ \cup {scenes[i].sceneNumber},
                                 !.clips = Append(@, ClipCall(i - 1)),
                                 !.clipPaths = Append(@, scenes[i].sceneNumber),
                                 !.i = i + 1, !.pc = AfterScene(i)]]
    /\ UNCHANGED <<assetVars, assetStatus, video, dirs, now>>

\* Lines 264-270 with runFFmpeg (62-79): the process ends; on exit code 0
\* the clip is probed and added to clipPaths, otherwise the error is thrown.
SceneRendered(a) ==
    /\ attempts[a].pc = "render"
    /\ LET i == attempts[a].i
           there == WorkDirThere(attempts[a])
       IN  \E ok \in BOOLEAN :
             /\ ok => there
             /\ (~ok /\ there) => faults < MaxFaults
             /\ faults' = IF ~ok /\ there THEN faults + 1 ELSE faults
             /\ attempts' = [attempts EXCEPT ![a] =
                  IF ok
                  THEN [@ EXCEPT !.rendering = @ \ {scenes[i].sceneNumber},
                                 !.clipPaths = Append(@, scenes[i].sceneNumber),
                                 !.i = i + 1, !.pc = AfterScene(i)]
                  ELSE Throw([@ EXCEPT !.rendering = @ \ {scenes[i].sceneNumber}],
                             TransformFailed)]
    /\ UNCHANGED <<assetVars, assetStatus, video, dirs, now>>

\* Lines 273-279: no clip is an error; else stage CONCATENATING.
Concatenate(a) ==
    IF attempts[a].pc = "concat" /\ attempts[a].clipPaths = <<>>
    THEN /\ attempts' = [attempts EXCEPT ![a] = Throw(@, NoClips)]
         /\ UNCHANGED <<assetVars, assetStatus, faults, video, dirs, now>>
    ELSE StageStep(a, "concat", "CONCATENATING", Concatenating, "thumbnail",
                   TransformFailed)

\* Lines 281-284: stage GENERATING_THUMBNAIL.
Thumbnail(a) ==
    StageStep(a, "thumbnail", "GENERATING_THUMBNAIL", GeneratingThumbnail,
              "upload", TransformFailed)

\* Lines 286-307: stage UPLOADING: read and upload the video, then the
\* thumbnail.
Upload(a) ==
    StageStep(a, "upload", "UPLOADING", Uploading, "complete", UploadFailed)

\* Lines 309-321: the one write of the URLs, with stage COMPLETED.
Complete(a) ==
    /\ attempts[a].pc = "complete"
    /\ \E ok \in BOOLEAN :
         /\ Inject(ok)
         /\ IF ok
            THEN /\ video' = [video EXCEPT
                       !.status = "GENERATED",
                       !.videoUrl = S3Url("videos/rendered", VideoId),
                       !.thumbnailUrl = S3Url("videos/thumbnails", VideoId),
                       !.renderProgress = Completed,
                       !.errorMessage = <<>>]
                 /\ attempts' = [attempts EXCEPT ![a] =
                                  [Wrote(@, "COMPLETED") EXCEPT !.pc = "cleanup"]]
            ELSE /\ attempts' = [attempts EXCEPT ![a] = Throw(@, WriteFailed)]
                 /\ UNCHANGED video
    /\ UNCHANGED <<assetVars, assetStatus, dirs, now>>

\* cleanupWorkDir (25-31): fs.rm with force; its failure is logged only.
Removed(ok, workDir) == IF ok THEN dirs \ {workDir} ELSE dirs

\* Lines 323-326: remove the workspace and return.
Cleanup(a) ==
    /\ attempts[a].pc = "cleanup"
    /\ \E ok \in BOOLEAN :
         /\ Inject(ok)
         /\ dirs' = Removed(ok, attempts[a].workDir)
         /\ attempts' = [attempts EXCEPT ![a].pc = "returned"]
    /\ UNCHANGED <<assetVars, assetStatus, video, now>>

\* Lines 328-334: the catch block writes status FAILED with the message of
\* the error; the update rejects when the row does not exist, and when it
\* rejects renderVideo rejects with the error of the update.
CatchWrite(a) ==
    /\ attempts[a].pc = "catch"
    /\ \E ok \in BOOLEAN :
         /\ ok => video.exists
         /\ (~ok /\ video.exists) => faults < MaxFaults
         /\ faults' = IF ~ok /\ video.exists THEN faults + 1 ELSE faults
         /\ IF ok
            THEN /\ video' = [video EXCEPT !.status = "FAILED",
                                           !.errorMessage = attempts[a].error,
                                           !.renderProgress = Failed(attempts[a].error)]
                 /\ attempts' = [attempts EXCEPT ![a] =
                                  [Wrote(@, "FAILED") EXCEPT !.pc = "catchCleanup"]]
            ELSE /\ attempts' = [attempts EXCEPT ![a].pc = "threw",
                                               ![a].raised = WriteFailed]
                 /\ UNCHANGED video
    /\ UNCHANGED <<assetVars, assetStatus, dirs, now>>

\* Lines 336-337: remove the workspace if one was made and rethrow.
CatchCleanup(a) ==
    /\ attempts[a].pc = "catchCleanup"
    /\ IF attempts[a].workDir # <<>>
       THEN \E ok \in BOOLEAN :
              /\ Inject(ok)
              /\ dirs' = Removed(ok, attempts[a].workDir)
       ELSE UNCHANGED <<dirs, faults>>
    /\ attempts' = [attempts EXCEPT ![a].pc = "threw", ![a].raised = attempts[a].error]
    /\ UNCHANGED <<assetVars, assetStatus, video, now>>

\* videoService.js lines 55-96: a plan is generated again for the video; the
\* row is written with status GENERATED and assetStatus PENDING.  (The asset
\* run this starts is followed in Spec.)
PlanRegenerated ==
    /\ video.exists
    /\ assetStatus # "PENDING"
    /\ assetStatus' = "PENDING"
    /\ video' = [video EXCEPT !.status = "GENERATED"]
    /\ UNCHANGED <<assetVars, faults, attempts, dirs, now>>

\* The rows an asset run without database failures leaves for a plan of n
\* scenes: per scene a usable or a failed image row, and a usable, a failed
\* or no audio row.
RenderInit ==
    /\ \E exists \in BOOLEAN : video = InitialVideo(exists)
    /\ call = NoCall
    /\ pc = "off"
    /\ voiceInput = "neutral_male"
    /\ finalStatus = ""
    /\ faults = 0
    /\ dbFailed = FALSE
    /\ runs = 1
    /\ \E n \in 1..MaxScenes :
         \E img \in [1..n -> {"usable", "failed"}],
            aud \in [1..n -> {"usable", "failed", "none"}] :
            LET plan == [i \in 1..n |->
                           [sceneNumber |-> i, imagePrompt |-> ScenePrompt(i),
                            narration |-> IF aud[i] = "none" THEN BlankNarration(i)
                                          ELSE Spoken]]
                counters ==
                    [totalScenes |-> n,
                     imagesCompleted |-> Cardinality({i \in 1..n : img[i] = "usable"}),
                     audioCompleted |-> Cardinality({i \in 1..n : aud[i] # "failed"}),
                     imagesFailed |-> Cardinality({i \in 1..n : img[i] = "failed"}),
                     audioFailed |-> Cardinality({i \in 1..n : aud[i] = "failed"})]
            IN  /\ scenes = plan
                /\ videoImages =
                     {IF img[i] = "usable" THEN ImageRecord(plan[i])
                      ELSE ImageErrorRecord(plan[i], UploadFailed) : i \in 1..n}
                /\ videoAudios =
                     {IF aud[i] = "usable" THEN AudioRecord(plan[i])
                      ELSE AudioErrorRecord(plan[i], UploadFailed) :
                        i \in {j \in 1..n : aud[j] # "none"}}
                /\ progress = counters
                /\ assetProgress = counters
                /\ assetStatus = FinalStatus(counters)
                /\ assetError = FinalError(FinalStatus(counters))
                /\ imgTask = [i \in 1..n |-> [NewTask("done") EXCEPT !.writes = 1]]
                /\ audTask = [i \in 1..n |-> [NewTask("done") EXCEPT !.writes = 1]]
    /\ attempts = [a \in Attempts |-> NewAttempt]
    /\ dirs = {}
    /\ now = 0

RenderNext ==
    \/ \E a \in Attempts : ControllerRead(a)
    \/ \E a \in Attempts : ControllerStart(a)
    \/ \E a \in Attempts : Load(a)
    \/ \E a \in Attempts : Prepare(a)
    \/ \E a \in Attempts : MakeWorkDir(a)
    \/ \E a \in Attempts : SceneProgress(a)
    \/ \E a \in Attempts : SceneClip(a)
    \/ \E a \in Attempts : SceneRendered(a)
    \/ \E a \in Attempts : Concatenate(a)
    \/ \E a \in Attempts : Thumbnail(a)
    \/ \E a \in Attempts : Upload(a)
    \/ \E a \in Attempts : Complete(a)
    \/ \E a \in Attempts : Cleanup(a)
    \/ \E a \in Attempts : CatchWrite(a)
    \/ \E a \in Attempts : CatchCleanup(a)
    \/ PlanRegenerated

SpecRender == RenderInit /\ [][RenderNext]_vars

\* ------------------------------------------------- the entry points again
\* Calls of generateAllAssets the model follows for one video.
MaxRuns == 2

\* No task of the last run has a generation or a write in flight.
Quiescent ==
    /\ \A s \in Scenes : imgTask[s].pc \in {"none", "done", "rejected"}
    /\ \A s \in Scenes : audTask[s].pc \in {"none", "done", "rejected"}

\* videoAssetService.js lines 373-455, called for a video whose last run has
\* ended with assetStatus FAILED: progress, results and finalStatus are
\* locals of the new call; the rows of the last run are not touched.
StartAgain ==
    /\ pc \in {"done", "caught"}
    /\ assetStatus = "FAILED"
    /\ Quiescent
    /\ runs < MaxRuns
    /\ \E ok \in BOOLEAN :
         /\ ~ok => faults < MaxFaults
         /\ faults' = IF ok THEN faults ELSE faults + 1
         /\ dbFailed' = (dbFailed \/ ~ok)
         /\ runs' = runs + 1
         /\ progress' = InitialProgress(Len(scenes))
         /\ finalStatus' = ""
         /\ audTask' = [i \in Scenes |-> NewTask("none")]
         /\ IF ok
            THEN /\ assetStatus' = "GENERATING"
                 /\ assetProgress' = InitialProgress(Len(scenes))
                 /\ assetError' = <<>>
                 /\ imgTask' = [i \in Scenes |-> NewTask("pending")]
                 /\ pc' = "images"
            ELSE /\ UNCHANGED <<assetStatus, assetProgress, assetError>>
                 /\ imgTask' = [i \in Scenes |-> NewTask("none")]
                 /\ pc' = "rejected"
    /\ UNCHANGED <<video, attempts, dirs, now, call, scenes, voiceInput,
                   videoImages, videoAudios>>

\* error.message of the generateImage / generateAudio calls that throw.
ImageThrown(p) == {g.thrown : g \in {x \in ImageCallResults[p] : x.state # "returned"}}
AudioThrown(t) == {g.thrown : g \in {x \in AudioCallResults[t] : x.state # "returned"}}

\* What a run leaves when every generation call of it threw and every write
\* went through: an error row per scene and kind, the counters of the final
\* write, assetStatus FAILED.
FailedInit ==
    /\ call = NoCall
    /\ pc = "done"
    /\ voiceInput = "neutral_male"
    /\ finalStatus = "FAILED"
    /\ assetStatus = "FAILED"
    /\ assetError = FinalError("FAILED")
    /\ faults = 0
    /\ dbFailed = FALSE
    /\ runs = 1
    /\ NoRender
    /\ \E n \in 1..MaxScenes :
         LET plan == [i \in 1..n |->
                        [sceneNumber |-> i, imagePrompt |-> ScenePrompt(i),
                         narration |-> Spoken]]
             counters == [totalScenes |-> n, imagesCompleted |-> 0,
                          audioCompleted |-> 0, imagesFailed |-> n,
                          audioFailed |-> n]
         IN  \E im \in [1..n -> UNION {ImageThrown(p) : p \in Prompts}],
                am \in [1..n -> AudioThrown(Spoken)] :
                /\ \A i \in 1..n : im[i] \in ImageThrown(plan[i].imagePrompt)
                /\ scenes = plan
                /\ videoImages = {ImageErrorRecord(plan[i], im[i]) : i \in 1..n}
                /\ videoAudios = {AudioErrorRecord(plan[i], am[i]) : i \in 1..n}
                /\ progress = counters
                /\ assetProgress = counters
                /\ imgTask = [i \in 1..n |-> [NewTask("done") EXCEPT !.called = TRUE,
                                                                  !.writes = 1]]
                /\ audTask = [i \in 1..n |-> [NewTask("done") EXCEPT !.called = TRUE,
                                                                  !.writes = 1]]

\* A video whose asset run has ended FAILED, or a video with the rows of an
\* asset run and render requests arriving.
AgainInit == FailedInit \/ RenderInit

\* One step of a render request that arrived after the one before it was
\* over.
RenderAgain(a) ==
    /\ a > 1 => attempts[a - 1].pc \in {"refused", "returned", "threw"}
    /\ \/ ControllerRead(a)
       \/ ControllerStart(a)
       \/ Load(a)
       \/ Prepare(a)
       \/ MakeWorkDir(a)
       \/ SceneProgress(a)
       \/ SceneClip(a)
       \/ SceneRendered(a)
       \/ Concatenate(a)
       \/ Thumbnail(a)
       \/ Upload(a)
       \/ Complete(a)
       \/ Cleanup(a)
       \/ CatchWrite(a)
       \/ CatchCleanup(a)

\* generateAllAssets called again after FAILED, through to its end; the
\* render requests for a video whose asset run is over, one after the other.
AgainNext ==
    \/ StartAgain
    \/ \E s \in Scenes : ImageTask(s)
    \/ \E s \in Scenes : ImageSnapshot(s)
    \/ \E s \in Scenes : ImageSnapshot2(s)
    \/ JoinImages
    \/ \E s \in Scenes : AudioTask(s)
    \/ \E s \in Scenes : AudioSnapshot(s)
    \/ \E s \in Scenes : AudioSnapshot2(s)
    \/ JoinAudio
    \/ FinalWrite
    \/ CatchRejected
    \/ pc = "off" /\ \E a \in Attempts : RenderAgain(a)

SpecAgain == AgainInit /\ [][AgainNext]_vars

\* --------------------------------------------------------- concatenateClips
\* Clip lists the model hands to concatenateClips are at most this long.
MaxClips == 3

\* Clip paths, as characters: plain, with a separator of either kind, and
\* with a single quote.
ClipPaths ==
    {<<"a">>, <<"b", "/", "c">>, <<"d", "\\", "e">>, <<"o", "'", "k">>}

\* path.join(workDir, 'final_video.mp4')
FinalVideoPath == <<"work", "/", "final_video.mp4">>

\* path.dirname
DirName(p) == SubSeq(p, 1, Len(p) - 2)

\* String.prototype.replace(/c/g, r): every character c becomes r.
RECURSIVE ReplaceAll(_, _, _)
ReplaceAll(str, c, r) ==
    IF str = <<>> THEN <<>>
    ELSE (IF Head(str) = c THEN r ELSE <<Head(str)>>) \o ReplaceAll(Tail(str), c, r)

\* p.replace(/\\/g, '/').replace(/'/g, "'\\''")
EscapePath(p) ==
    ReplaceAll(ReplaceAll(p, "\\", <<"/">>), "'", <<"'", "\\", "'", "'">>)

\* `file '${...}'`
ManifestLine(p) == <<"file", " ", "'">> \o EscapePath(p) \o <<"'">>

\* Array.prototype.join('\n')
RECURSIVE JoinLines(_)
JoinLines(ls) ==
    IF ls = <<>> THEN <<>>
    ELSE IF Len(ls) = 1 THEN ls[1]
    ELSE ls[1] \o <<"\n">> \o JoinLines(Tail(ls))

\* Mutant of ConcatContent: the entries in reverse order.
ConcatContentReversed(clipPaths) ==
    JoinLines([k \in 1..Len(clipPaths) |->
                  ManifestLine(clipPaths[Len(clipPaths) + 1 - k])])

\* Line 160: the content of concat.txt.
ConcatContent(clipPaths) ==
    JoinLines([k \in 1..Len(clipPaths) |-> ManifestLine(clipPaths[k])])

\* Lines 163-171: the argument vector of the concatenation.
ConcatArgs(concatFilePath, outputPath) ==
    <<"-y", "-f", "concat", "-safe", "0", "-i", concatFilePath,
      "-c", "copy", "-movflags", "+faststart", outputPath>>

\* A call of concatenateClips(clipPaths, outputPath): what it copied, what it
\* wrote and what it spawned.
StartConcat(clipPaths, outputPath) ==
    [kind |-> "concatenateClips", clipPaths |-> clipPaths,
     outputPath |-> outputPath, state |-> "start", copied |-> <<>>,
     written |-> <<>>, spawned |-> <<>>]

ConcatInit ==
    /\ \E k \in 1..MaxClips : \E cp \in [1..k -> ClipPaths] :
         call = StartConcat(cp, FinalVideoPath)
    /\ NoRun

\* Lines 154-157: one clip is copied to the output; fs.copyFile may reject.
ConcatCopy ==
    /\ call.kind = "concatenateClips"
    /\ call.state = "start"
    /\ Len(call.clipPaths) = 1
    /\ \E ok \in BOOLEAN :
         call' = [call EXCEPT
                    !.copied = IF ok THEN <<[from |-> call.clipPaths[1],
                                             to |-> call.outputPath]>>
                               ELSE @,
                    !.state = IF ok THEN "resolved" ELSE "rejected"]
    /\ UNCHANGED runVars

\* Lines 159-161: the manifest is written next to the output.
ConcatWrite ==
    /\ call.kind = "concatenateClips"
    /\ call.state = "start"
    /\ Len(call.clipPaths) # 1
    /\ \E ok \in BOOLEAN :
         call' = [call EXCEPT
                    !.written = IF ok
                                THEN <<[file |-> DirName(call.outputPath) \o <<"/", "concat.txt">>,
                                        content |-> ConcatContent(call.clipPaths)]>>
                                ELSE @,
                    !.state = IF ok THEN "spawn" ELSE "rejected"]
    /\ UNCHANGED runVars

\* Lines 163-173 with runFFmpeg (62-79): one process is spawned; the call
\* resolves on exit code 0 and rejects otherwise.
ConcatRun ==
    /\ call.kind = "concatenateClips"
    /\ call.state = "spawn"
    /\ \E code \in {0, 1} :
         call' = [call EXCEPT
                    !.spawned = Append(@, ConcatArgs(call.written[1].file,
                                                     call.outputPath)),
                    !.state = IF code = 0 THEN "resolved" ELSE "rejected"]
    /\ UNCHANGED runVars

ConcatNext == ConcatCopy \/ ConcatWrite \/ ConcatRun

SpecConcat == ConcatInit /\ [][ConcatNext]_vars

\* --------------------------------------------------------- getAudioDuration
\* 'data' events the model lets one probe process emit.
MaxChunks == 2

\* What ffprobe can write to stdout in one 'data' event, as characters.
Chunks ==
    {<<"1", "2", ".", "5", "\n">>, <<"N", "/", "A", "\n">>, <<"7">>,
     <<".", "5">>, <<" ">>, <<"x">>}

\* Exit codes of the probe process; -1 stands for the null of a process
\* that was ended by a signal.
ExitCodes == {0, 1, -1}

DigitChars == {"0", "1", "2", "3", "4", "5", "6", "7", "8", "9"}
WhiteSpace == {" ", "\n"}

\* The value NaN, and the default of lines 56 and 58.
NaN == <<"NaN">>
DefaultDuration == <<"5">>

RECURSIVE DropWhile(_, _)
DropWhile(str, chars) ==
    IF str # <<>> /\ Head(str) \in chars THEN DropWhile(Tail(str), chars) ELSE str

RECURSIVE TakeWhile(_, _)
TakeWhile(str, chars) ==
    IF str # <<>> /\ Head(str) \in chars
    THEN <<Head(str)>> \o TakeWhile(Tail(str), chars) ELSE <<>>

RECURSIVE Reverse(_)
Reverse(str) == IF str = <<>> THEN <<>> ELSE Append(Reverse(Tail(str)), Head(str))

\* String.prototype.trim
TrimString(str) ==
    Reverse(DropWhile(Reverse(DropWhile(str, WhiteSpace)), WhiteSpace))

\* parseFloat: the longest decimal literal the string starts with, after
\* leading white space; NaN when there is none.
ParseFloat(str) ==
    LET t == DropWhile(str, WhiteSpace)
        sign == IF t # <<>> /\ Head(t) = "-" THEN <<"-">> ELSE <<>>
        r == SubSeq(t, Len(sign) + 1, Len(t))
        ip == TakeWhile(r, DigitChars)
        rest == SubSeq(r, Len(ip) + 1, Len(r))
        fp == IF rest # <<>> /\ Head(rest) = "."
              THEN TakeWhile(Tail(rest), DigitChars) ELSE <<>>
    IN  IF ip = <<>> /\ fp = <<>> THEN NaN
        ELSE sign \o ip \o (IF fp = <<>> THEN <<>> ELSE <<".">> \o fp)

\* Mutant of CloseResult: the exit code is not looked at.
CloseResultAnyCode(code, output) ==
    IF ParseFloat(TrimString(output)) # NaN
    THEN ParseFloat(TrimString(output)) ELSE DefaultDuration

\* Lines 55-56: code === 0 && !isNaN(duration) ? duration : 5
CloseResult(code, output) ==
    IF code = 0 /\ ParseFloat(TrimString(output)) # NaN
    THEN ParseFloat(TrimString(output)) ELSE DefaultDuration

\* A call of getAudioDuration: the output collected so far, the events seen
\* and what the promise was resolved with.
StartProbe ==
    [kind |-> "getAudioDuration", output |-> <<>>, chunks |-> 0,
     closed |-> FALSE, errored |-> FALSE, code |-> 0, state |-> "pending",
     result |-> <<>>]

ProbeInit ==
    /\ call = StartProbe
    /\ NoRun

\* resolve(value): only the first call settles the promise.
Resolve(c, value) ==
    IF c.state = "pending" THEN [c EXCEPT !.state = "resolved", !.result = value]
    ELSE c

\* Line 53: stdout 'data'
ProbeData ==
    /\ call.kind = "getAudioDuration"
    /\ ~call.closed
    /\ ~call.errored
    /\ call.chunks < MaxChunks
    /\ \E d \in Chunks :
         call' = [call EXCEPT !.output = @ \o d, !.chunks = @ + 1]
    /\ UNCHANGED runVars

\* Lines 54-57: 'close'
ProbeClose ==
    /\ call.kind = "getAudioDuration"
    /\ ~call.closed
    /\ \E code \in ExitCodes :
         /\ call.errored => code # 0
         /\ call' = Resolve([call EXCEPT !.closed = TRUE, !.code = code],
                            CloseResult(code, call.output))
    /\ UNCHANGED runVars

\* Line 58: 'error': the process could not be started, or could not be
\* ended.
ProbeError ==
    /\ call.kind = "getAudioDuration"
    /\ ~call.closed
    /\ ~call.errored
    /\ call' = Resolve([call EXCEPT !.errored = TRUE], DefaultDuration)
    /\ UNCHANGED runVars

ProbeNext == ProbeData \/ ProbeClose \/ ProbeError

SpecProbe == ProbeInit /\ [][ProbeNext]_vars

\* ----------------------------------------------------------- sanitizePrompt
\* Prompts handed to sanitizePrompt have at most this many tokens.
MaxPromptLen == 5

\* The tokens of those prompts: plain words, white space, punctuation, and
\* terms of each of the three lists, one of them capitalised.
PromptTokens == {"city", " ", ".", "Gun", "nude", "hate"}

\* A word ends where white space or punctuation begins: no two words are
\* neighbours.
Tokenized(p) ==
    \A k \in 1..(Len(p) - 1) : p[k] \in {" ", "."} \/ p[k + 1] \in {" ", "."}

\* The levels generateImage asks for (line 143).
Levels == 1..3

\* The calls of sanitizePrompt made for one prompt: out[l] is what level l
\* returned, again what level 1 returned for the result of level 1.
StartSanitize(prompt) ==
    [kind |-> "sanitizePrompt", prompt |-> prompt,
     done |-> {}, out |-> [l \in Levels |-> <<>>],
     twice |-> FALSE, again |-> <<>>]

SanitizeInit ==
    /\ \E k \in 0..MaxPromptLen : \E p \in [1..k -> PromptTokens] :
         /\ Tokenized(p)
         /\ call = StartSanitize(p)
    /\ NoRun

\* sanitizePrompt(prompt, level)
SanitizeCall ==
    /\ call.kind = "sanitizePrompt"
    /\ \E level \in Levels \ call.done :
         call' = [call EXCEPT !.done = @ \cup {level},
                              !.out[level] = sanitizePrompt(call.prompt, level)]
    /\ UNCHANGED runVars

\* sanitizePrompt(sanitizePrompt(prompt, 1), 1)
SanitizeAgain ==
    /\ call.kind = "sanitizePrompt"
    /\ 1 \in call.done
    /\ ~call.twice
    /\ call' = [call EXCEPT !.twice = TRUE,
                            !.again = sanitizePrompt(call.out[1], 1)]
    /\ UNCHANGED runVars

SanitizeNext == SanitizeCall \/ SanitizeAgain

SpecSanitize == SanitizeInit /\ [][SanitizeNext]_vars

\* ------------------------------------------------------ renderVideo, alone
\* Plans of the render requests followed alone have at most this many
\* scenes.
MaxLongPlan == 6

\* The statuses of a video that has a plan: as generateVideoPlan left it,
\* submitted for review (videoService.js 250-256), approved (292-298).
PlannedStatuses == {"GENERATED", "IN_REVIEW", "APPROVED"}

\* A video after an asset run without failed writes: every scene has a
\* usable image row; with a voice other than "none" every scene, or every
\* other scene, has a narration and a usable audio row, and the rest
\* neither; with the voice "none" no scene has an audio row.  The video has
\* any aspect ratio and any of the statuses of a video with a plan.
LongPlanInit ==
    /\ \E aspectRatio \in AspectRatios, status \in PlannedStatuses :
         video = [InitialVideo(TRUE) EXCEPT !.aspectRatio = aspectRatio,
                                            !.status = status]
    /\ call = NoCall
    /\ pc = "off"
    /\ finalStatus = ""
    /\ faults = 0
    /\ dbFailed = FALSE
    /\ runs = 1
    /\ \E n \in 1..MaxLongPlan, narrated \in {1, 2},
          voice \in {"neutral_male", "none"} :
         LET spoken == {i \in 1..n : i % narrated = 0}
             plan == [i \in 1..n |->
                        [sceneNumber |-> i, imagePrompt |-> ScenePrompt(i),
                         narration |-> IF i \in spoken THEN Spoken
                                       ELSE BlankNarration(i)]]
             counters == [totalScenes |-> n, imagesCompleted |-> n,
                          audioCompleted |-> n, imagesFailed |-> 0,
                          audioFailed |-> 0]
         IN  /\ voiceInput = voice
             /\ scenes = plan
             /\ videoImages = {ImageRecord(plan[i]) : i \in 1..n}
             /\ videoAudios = IF voice = "none" THEN {}
                              ELSE {AudioRecord(plan[i]) : i \in spoken}
             /\ progress = counters
             /\ assetProgress = counters
             /\ assetStatus = FinalStatus(counters)
             /\ assetError = FinalError(FinalStatus(counters))
             /\ imgTask = [i \in 1..n |-> [NewTask("done") EXCEPT !.writes = 1]]
             /\ audTask = [i \in 1..n |->
                             IF voice = "none" THEN NewTask("none")
                             ELSE [NewTask("done") EXCEPT !.writes = 1]]
    /\ attempts = [a \in Attempts |-> NewAttempt]
    /\ dirs = {}
    /\ now = 0

\* One render request, from the controller to the end of renderVideo.
LongPlanNext ==
    \/ ControllerRead(1)
    \/ ControllerStart(1)
    \/ Load(1)
    \/ Prepare(1)
    \/ MakeWorkDir(1)
    \/ SceneProgress(1)
    \/ SceneClip(1)
    \/ SceneRendered(1)
    \/ Concatenate(1)
    \/ Thumbnail(1)
    \/ Upload(1)
    \/ Complete(1)
    \/ Cleanup(1)
    \/ CatchWrite(1)
    \/ CatchCleanup(1)

SpecLongPlan == LongPlanInit /\ [][LongPlanNext]_vars

\* ------------------------------------------- renderVideo after regeneration
\* A video whose plan was generated twice (videoService.js 76-131), each
\* time followed by a generateAllAssets run without failed writes: the first
\* run left a usable image row and a usable audio row for each scene of the
\* first plan, the second a usable or a failed row for each scene of the
\* second plan.  Nothing deletes the rows of the first run.
RegenInit ==
    /\ video = InitialVideo(TRUE)
    /\ call = NoCall
    /\ pc = "off"
    /\ voiceInput = "neutral_male"
    /\ finalStatus = ""
    /\ faults = 0
    /\ dbFailed = FALSE
    /\ runs = 2
    /\ \E before \in 1..MaxScenes, n \in 1..MaxScenes :
         \E img \in [1..n -> {"usable", "failed"}],
            aud \in [1..n -> {"usable", "failed"}] :
            LET first == [i \in 1..before |->
                            [sceneNumber |-> i, imagePrompt |-> ScenePrompt(i),
                             narration |-> Spoken]]
                plan == [i \in 1..n |->
                           [sceneNumber |-> i, imagePrompt |-> ScenePrompt(i + 1),
                            narration |-> Spoken]]
                counters ==
                    [totalScenes |-> n,
                     imagesCompleted |-> Cardinality({i \in 1..n : img[i] = "usable"}),
                     audioCompleted |-> Cardinality({i \in 1..n : aud[i] = "usable"}),
                     imagesFailed |-> Cardinality({i \in 1..n : img[i] = "failed"}),
                     audioFailed |-> Cardinality({i \in 1..n : aud[i] = "failed"})]
            IN  /\ scenes = plan
                /\ videoImages =
                     {[ImageRecord(first[i]) EXCEPT !.run = 1] : i \in 1..before}
                     \cup {IF img[i] = "usable" THEN ImageRecord(plan[i])
                           ELSE ImageErrorRecord(plan[i], UploadFailed) : i \in 1..n}
                /\ videoAudios =
                     {[AudioRecord(first[i]) EXCEPT !.run = 1] : i \in 1..before}
                     \cup {IF aud[i] = "usable" THEN AudioRecord(plan[i])
                           ELSE AudioErrorRecord(plan[i], UploadFailed) : i \in 1..n}
                /\ progress = counters
                /\ assetProgress = counters
                /\ assetStatus = FinalStatus(counters)
                /\ assetError = FinalError(FinalStatus(counters))
                /\ imgTask = [i \in 1..n |-> [NewTask("done") EXCEPT !.called = TRUE,
                                                                  !.writes = 1]]
                /\ audTask = [i \in 1..n |-> [NewTask("done") EXCEPT !.called = TRUE,
                                                                  !.writes = 1]]
    /\ attempts = [a \in Attempts |-> NewAttempt]
    /\ dirs = {}
    /\ now = 0

\* One render request for the video, as in LongPlanNext.
SpecRegen == RegenInit /\ [][LongPlanNext]_vars

\* ================================================================== claims
\* Vocabulary of the claims.

\* A usable asset row: a storage key and no error.
Usable(r) == r.s3Key # <<>> /\ r.errorMessage = <<>>

\* The image row the run created for scene s, if any.
ImageRowsOf(s) == {r \in videoImages : r.sceneNumber = s}

\* The row records that generateImage exhausted its retries.
RetriesExhausted(r) ==
    r.errorMessage # <<>> /\ r.errorMessage[1] = "Image generation failed after"

\* The error kinds of the specification.
GenerationBlocked(e) == e \in {ErrBlocked, ErrFiltered}
GenerationTransient(e) == e \in {ErrTransient, ErrDownload}
GenerationFatal(e) == e = ErrFatal

\* The aggregate status as the specification words it.
StatusRule(st, p) ==
    LET failed == p.imagesCompleted = 0 /\ p.audioCompleted = 0
        partial == ~failed /\ (p.imagesFailed > 0 \/ p.audioFailed > 0)
    IN  /\ st \in {"FAILED", "PARTIAL", "COMPLETED"}
        /\ (st = "FAILED") <=> failed
        /\ (st = "PARTIAL") <=> partial
        /\ (st = "COMPLETED") <=> (~failed /\ ~partial)

\* C1: whenever a run has computed its terminal status, that status is FAILED
\* iff imagesCompleted = 0 and audioCompleted = 0, PARTIAL iff it is not
\* FAILED and some image or audio failed, and COMPLETED otherwise; the status
\* persisted by the final write is that status.
C1_StatusFromCounters ==
    /\ finalStatus # "" => StatusRule(finalStatus, progress)
    /\ pc = "done" => assetStatus = finalStatus /\ assetProgress = progress

\* A run that ended PARTIAL with no image completed: only audio succeeded.
C1_Witness ==
    /\ pc = "done"
    /\ assetStatus = "PARTIAL"
    /\ progress.imagesCompleted = 0
    /\ progress.audioCompleted > 0

\* C2: after a run completes, imagesCompleted + imagesFailed equals the number
\* of scenes, in memory and as persisted.
C2_ImagesSumToN ==
    pc = "done" =>
        /\ progress.imagesCompleted + progress.imagesFailed = Len(scenes)
        /\ assetProgress.imagesCompleted + assetProgress.imagesFailed = Len(scenes)

\* Tasks of a batch that have counted themselves.
Counted(tasks) == {s \in Scenes : tasks[s].pc \in {"snap", "snap2", "done", "rejected"}}

\* C3: in every state of a run the image counters and the audio counters sum
\* to at most totalScenes, each sub-task that has finished has added exactly
\* one to exactly one counter, and no step decreases a counter.
C3_CountersBounded ==
    [][ /\ progress'.imagesCompleted + progress'.imagesFailed <= progress'.totalScenes
        /\ progress'.audioCompleted + progress'.audioFailed <= progress'.totalScenes
        /\ progress'.imagesCompleted + progress'.imagesFailed = Cardinality(Counted(imgTask'))
        /\ ~SkipsAudio =>
             progress'.audioCompleted + progress'.audioFailed = Cardinality(Counted(audTask'))
        /\ progress'.imagesCompleted >= progress.imagesCompleted
        /\ progress'.imagesFailed >= progress.imagesFailed
        /\ progress'.audioCompleted >= progress.audioCompleted
        /\ progress'.audioFailed >= progress.audioFailed ]_vars

\* C4: with voice "none" no audio task is started, no speech request is
\* issued, no Audio row is created, and the run ends with audioCompleted =
\* totalScenes and audioFailed = 0, in memory and as persisted.
C4_VoiceNoneSkipsAudio ==
    voiceInput = "none" =>
        /\ \A s \in Scenes : audTask[s].pc = "none" /\ ~audTask[s].called
        /\ videoAudios = {}
        /\ pc \in {"final", "done"} =>
             progress.audioCompleted = Len(scenes) /\ progress.audioFailed = 0
        /\ pc = "done" =>
             assetProgress.audioCompleted = Len(scenes) /\ assetProgress.audioFailed = 0

\* A completed run with voice "none" over two scenes.
C4_Witness ==
    /\ voiceInput = "none"
    /\ pc = "done"
    /\ Len(scenes) = 2
    /\ progress.audioCompleted = 2

\* Every scene's image row says that generateImage exhausted its retries.
AllImagesExhausted ==
    \A s \in Scenes : \E r \in ImageRowsOf(s) : RetriesExhausted(r)

\* C5 as stated: a run in which every scene's image generation exhausted its
\* retries persists the status FAILED.
C5_AllImagesExhaustedFailed ==
    (pc = "done" /\ AllImagesExhausted) => assetStatus = "FAILED"

\* C5 as amended: such a run persists FAILED when its audioCompleted counter
\* is 0 and PARTIAL otherwise (never COMPLETED).
C5_AllImagesExhaustedStatus ==
    (pc = "done" /\ AllImagesExhausted) =>
        assetStatus = IF progress.audioCompleted = 0 THEN "FAILED" ELSE "PARTIAL"

\* Both scenes' images exhausted their retries, the audio of one succeeded.
C5_Witness ==
    /\ pc = "done"
    /\ Len(scenes) = 2
    /\ AllImagesExhausted
    /\ \E r \in videoAudios : Usable(r)
    /\ assetStatus = "PARTIAL"

\* C6: a run that created no usable Image row and no usable Audio row ends
\* with the status FAILED.
C6_NothingGeneratedFailed ==
    (/\ pc = "done"
     /\ \A r \in videoImages : ~Usable(r)
     /\ \A r \in videoAudios : ~Usable(r)) => assetStatus = "FAILED"

\* C7: a scene whose image generation was rejected three times as blocked and
\* then succeeded, and whose image was stored, is counted in imagesCompleted
\* and its Image row carries the level-3 prompt.
C7_Level3PromptPersisted ==
    \A s \in Scenes :
        (imgTask[s].pc = "snap" /\ imgTask[s].blocked3) =>
            \A r \in ImageRowsOf(s) :
                Usable(r) =>
                    /\ imgTask[s].counted = "imagesCompleted"
                    /\ r.imagePrompt = sanitizePrompt(scenes[s].imagePrompt, 3)

\* ------------------------------------------------------- claims on SpecGen
\* Number of content-policy rejections among the first i requests of the call.
BlockedUpTo(i) ==
    Cardinality({j \in 1..i : GenerationBlocked(call.log[j].outcome)})

\* C8: in a generateImage call the request that follows the i-th blocked
\* failure carries the level-i sanitization of the original prompt.
C8_LevelsInOrder ==
    call.kind = "image" =>
        \A i \in 1..(Len(call.log) - 1) :
            GenerationBlocked(call.log[i].outcome) =>
                call.log[i + 1].prompt = sanitizePrompt(call.prompt, BlockedUpTo(i))

\* The message of the error the call raised, after the fixed prefix.
ThrownCause == SubSeq(call.thrown, 4, Len(call.thrown))

\* C9: a generateImage or generateAudio call issues at most maxRetries + 1
\* requests (4 by default); when all of them fail it has raised one error,
\* which carries the message of the last failure.
C9_AttemptBudget ==
    /\ Len(call.log) <= call.maxRetries + 1
    /\ call.maxRetries = DefaultMaxRetries => Len(call.log) <= 4
    /\ (/\ Len(call.log) = call.maxRetries + 1
        /\ \A i \in 1..Len(call.log) : call.log[i].outcome # Ok)
         => /\ call.state = "threw"
            /\ ThrownCause = call.log[Len(call.log)].outcome.message
    /\ call.state = "threw" =>
         /\ Len(call.log) = call.maxRetries + 1
         /\ \A i \in 1..Len(call.log) : call.log[i].outcome # Ok
    /\ call.state = "running" => call.thrown = <<>>

\* A default generateImage call that failed four times, blocked and transient
\* failures mixed, the last one transient.
C9_Witness ==
    /\ call.kind = "image"
    /\ call.maxRetries = DefaultMaxRetries
    /\ call.state = "threw"
    /\ \E i \in 1..3 : GenerationBlocked(call.log[i].outcome)
    /\ call.log[4].outcome = ErrTransient
    /\ ThrownCause = ErrTransient.message

\* C10: a GenerationFatal failure is not retried: no request follows it in
\* the call, and the call does not return a result.
C10_FatalNotRetried ==
    \A i \in 1..Len(call.log) :
        GenerationFatal(call.log[i].outcome) =>
            i = Len(call.log) /\ call.state # "returned"

\* ------------------------------------------- claims on the run, continued
\* The audio rows the run created for scene s.
AudioRowsOf(s) == {r \in videoAudios : r.sceneNumber = s}

\* Scene s is due an audio row: audio is generated and it has a narration.
Narrated(s) == ~SkipsAudio /\ ~NoNarration(scenes[s].narration)

\* The row records a failed generation or a failed upload.
GenerationOrUploadFailed(r) ==
    r.errorMessage # <<>> /\ r.errorMessage # WriteFailed

\* What C11 says of every state.
FailuresContained ==
    /\ pc \in {"rejected", "caught"} => dbFailed
    /\ \A s \in Scenes :
          /\ imgTask[s].pc = "rejected" => dbFailed
          /\ audTask[s].pc = "rejected" => dbFailed
    /\ (pc = "done" /\ ~dbFailed) =>
          \A s \in Scenes :
              /\ Cardinality(ImageRowsOf(s)) = 1
              /\ Narrated(s) => Cardinality(AudioRowsOf(s)) = 1

\* What C11 says of every step: a step of the task of one scene, a failing
\* one included, leaves the tasks of all other scenes as they are.
SiblingsUntouched ==
    \A s \in Scenes :
        ((imgTask[s].pc # "none" /\ imgTask'[s] # imgTask[s])
           \/ (audTask[s].pc # "none" /\ audTask'[s] # audTask[s]))
        => \A t \in Scenes \ {s} :
              imgTask'[t] = imgTask[t] /\ audTask'[t] = audTask[t]

\* C11: generation and upload failures of a scene are contained.  No task
\* and no run rejects unless a database write has failed; no step of one
\* scene's task aborts or alters the task of a sibling scene; and a run in
\* which no database write failed returns with the image row of every scene
\* and the audio row of every narrated scene.
C11_FailuresContained == []FailuresContained /\ [][SiblingsUntouched]_vars

\* A run of two scenes that returned without any failed database write: the
\* image of scene 1 failed, the image of scene 2 is usable, and the audio of
\* scene 2 failed while that of scene 1 is usable.
C11_Witness ==
    /\ pc = "done"
    /\ ~dbFailed
    /\ Len(scenes) = 2
    /\ \E r \in ImageRowsOf(1) : GenerationOrUploadFailed(r)
    /\ \E r \in ImageRowsOf(2) : Usable(r)
    /\ \E r \in AudioRowsOf(1) : Usable(r)
    /\ \E r \in AudioRowsOf(2) : GenerationOrUploadFailed(r)

\* C12: once a run has returned, every scene of the plan has exactly one
\* Image row, and at most one Audio row, none at all when its narration is
\* empty.
C12_OneRowPerScene ==
    pc = "done" =>
        \A s \in Scenes :
            /\ Cardinality(ImageRowsOf(s)) = 1
            /\ Cardinality(AudioRowsOf(s)) <= 1
            /\ NoNarration(scenes[s].narration) => AudioRowsOf(s) = {}

\* The terminal values of the aggregate asset status.
TerminalAssetStatus == {"COMPLETED", "PARTIAL", "FAILED"}

\* C13: every run that is started eventually has a terminal assetStatus
\* persisted, also when generateAllAssets rejects and the caller that
\* started it without await handles the rejection.
C13_EventuallyTerminal == <>(assetStatus \in TerminalAssetStatus)

\* ------------------------------------------------- claims on SpecRender
\* renderVideo was called for the request and is past its first read.
Loaded(att) == att.pc \notin {"idle", "checked", "refused", "load"}

\* renderVideo has returned or thrown.
Finished(att) == att.pc \in {"returned", "threw"}

\* The video has no usable image row.
NoUsableImage == \A r \in videoImages : ~Usable(r)

\* C14: renderVideo on a video without a usable image fails at its
\* precondition check with the error 'No valid images to render' (unless the
\* read of the video itself failed); it writes no stage before FAILED, it
\* rethrows that error once FAILED is written, and no workspace directory
\* is ever created.
C14_NoUsableNoWorkspace ==
    NoUsableImage =>
        /\ dirs = {}
        /\ \A a \in Attempts :
             Loaded(attempts[a]) =>
                /\ attempts[a].pc \in {"catch", "catchCleanup", "threw"}
                /\ attempts[a].error \in {NoValidImages, WriteFailed}
                /\ attempts[a].workDir = <<>>
                /\ attempts[a].stages \in {<<>>, <<"FAILED">>}
                /\ (attempts[a].pc = "threw" /\ attempts[a].stages = <<"FAILED">>)
                      => attempts[a].raised = attempts[a].error

\* A render accepted for a video whose assets are PARTIAL with no usable
\* image: it has thrown 'No valid images to render' after writing FAILED.
C14_Witness ==
    /\ NoUsableImage
    /\ dirs = {}
    /\ \E a \in Attempts :
         /\ attempts[a].pc = "threw"
         /\ attempts[a].seen = "PARTIAL"
         /\ attempts[a].raised = NoValidImages
         /\ attempts[a].stages = <<"FAILED">>
    /\ video.renderProgress = Failed(NoValidImages)

\* C15: once renderVideo has returned or thrown, the workspace directory it
\* created (and shares with no other attempts) is gone.
C15_WorkspaceRemoved ==
    \A a \in Attempts :
        (/\ Finished(attempts[a])
         /\ attempts[a].workDir # <<>>
         /\ \A b \in Attempts \ {a} : attempts[b].workDir # attempts[a].workDir)
        => attempts[a].workDir \notin dirs

\* The order of the stages of a render attempts.
StageOrder ==
    <<"PREPARING", "RENDERING_SCENES", "CONCATENATING", "GENERATING_THUMBNAIL",
      "UPLOADING", "COMPLETED">>

\* The sequence without the repeats of RENDERING_SCENES, which is written
\* once per scene of the plan.
RECURSIVE OncePerLoop(_)
OncePerLoop(stages) ==
    IF Len(stages) <= 1 THEN stages
    ELSE IF stages[1] = "RENDERING_SCENES" /\ stages[2] = "RENDERING_SCENES"
         THEN OncePerLoop(Tail(stages))
         ELSE <<stages[1]>> \o OncePerLoop(Tail(stages))

\* C16: the stages one render attempts writes to renderProgress form a prefix
\* of PREPARING, RENDERING_SCENES (once per scene), CONCATENATING,
\* GENERATING_THUMBNAIL, UPLOADING, COMPLETED, optionally followed by FAILED:
\* no stage comes back after a later one, FAILED never follows COMPLETED and
\* nothing follows FAILED.
C16_StagesInOrder ==
    \A a \in Attempts :
        LET written == OncePerLoop(attempts[a].stages)
        IN  \E k \in 0..Len(StageOrder) :
              \/ written = SubSeq(StageOrder, 1, k)
              \/ /\ k < Len(StageOrder)
                 /\ written = SubSeq(StageOrder, 1, k) \o <<"FAILED">>

\* An attempts on a plan of two scenes that wrote every stage up to UPLOADING
\* and then FAILED, because an upload failed.
C16_Witness ==
    \E a \in Attempts :
        /\ attempts[a].pc = "threw"
        /\ attempts[a].error = UploadFailed
        /\ attempts[a].stages =
             <<"PREPARING", "RENDERING_SCENES", "RENDERING_SCENES", "CONCATENATING",
               "GENERATING_THUMBNAIL", "UPLOADING", "FAILED">>

\* C17: whenever renderVideo has thrown, it caught an error, it wrote status
\* and stage FAILED with the message of that error as its last write, and
\* the error it raised is the one it caught.
C17_FailedPersistedAndRethrown ==
    \A a \in Attempts :
        attempts[a].pc = "threw" =>
            /\ attempts[a].error # <<>>
            /\ attempts[a].stages # <<>>
            /\ attempts[a].stages[Len(attempts[a].stages)] = "FAILED"
            /\ attempts[a].raised = attempts[a].error

\* C18: the video URL and the thumbnail URL of the row are set together or
\* not at all, and while the persisted stage is FAILED neither is set.
C18_NoUrlWhenFailed ==
    /\ (video.videoUrl = <<>>) <=> (video.thumbnailUrl = <<>>)
    /\ video.renderProgress.stage = "FAILED" =>
          video.videoUrl = <<>> /\ video.thumbnailUrl = <<>>

\* What C19 says of every step.
StartsOnlyWhenUsable ==
    \A a \in Attempts :
        /\ (attempts[a].pc = "checked" /\ attempts'[a].pc = "load")
              => assetStatus \in UsableStatus
        /\ (attempts[a].pc = "load" /\ attempts'[a].pc = "prepare")
              => assetStatus \in UsableStatus

\* C19: renderVideo is invoked, and passes its precondition checks, only
\* while the persisted assetStatus of the video is COMPLETED or PARTIAL.
C19_StartsOnlyWhenUsable == [][StartsOnlyWhenUsable]_vars

\* The attempts has a workspace and has not returned or thrown yet.
InFlight(att) == att.workDir # <<>> /\ ~Finished(att)

\* C20: two render attempts in flight at the same time have different
\* workspace directories.
C20_WorkspacesDistinct ==
    \A a, b \in Attempts :
        (a # b /\ InFlight(attempts[a]) /\ InFlight(attempts[b]))
        => attempts[a].workDir # attempts[b].workDir

\* The scenes among the first k of the plan that have a usable image row and
\* a usable audio row, in plan order.
RECURSIVE PlanClips(_)
PlanClips(k) ==
    IF k = 0 THEN <<>>
    ELSE LET s == scenes[k].sceneNumber
             both == /\ \E r \in videoImages : r.sceneNumber = s /\ Usable(r)
                     /\ \E r \in videoAudios : r.sceneNumber = s /\ Usable(r)
         IN  IF both THEN Append(PlanClips(k - 1), s) ELSE PlanClips(k - 1)

\* The scene loop is over and the clips were or are about to be handed to
\* concatenateClips.
LoopDone(att) ==
    att.pc \in {"concat", "thumbnail", "upload", "complete", "cleanup", "returned"}

\* C21: the clips renderVideo hands to concatenation are the scenes of the
\* plan that have both a usable image and a usable audio row, in plan order,
\* each once; while the loop runs, the list is that of the scenes passed.
C21_ClipsArePlanSubsequence ==
    \A a \in Attempts :
        /\ attempts[a].pc \in {"scene", "clip", "render"} =>
              attempts[a].clipPaths = PlanClips(attempts[a].i - 1)
        /\ LoopDone(attempts[a]) =>
              attempts[a].clipPaths = PlanClips(Len(scenes))

\* C21 witness: the clips of a two-scene plan were concatenated, one scene
\* having been passed over.
C21_Witness ==
    \E a \in Attempts :
        /\ attempts[a].pc = "thumbnail"
        /\ Len(scenes) = 2
        /\ Len(attempts[a].clipPaths) = 1

\* The stages renderVideo writes before a terminal one.
IntermediateStages ==
    {"PREPARING", "RENDERING_SCENES", "CONCATENATING", "GENERATING_THUMBNAIL",
     "UPLOADING"}

\* The attempts is inside the try or the catch block of renderVideo past its
\* first write.
Rendering(att) == Loaded(att) /\ ~Finished(att)

\* C22: once renderVideo has returned or thrown, and no other attempt is
\* rendering the video, the persisted stage is not an intermediate one: the
\* attempt reached COMPLETED or FAILED.
C22_TerminalStagePersisted ==
    (/\ \E a \in Attempts : Finished(attempts[a])
     /\ \A a \in Attempts : ~Rendering(attempts[a]))
        => video.renderProgress.stage \notin IntermediateStages

\* The four counters of a progress object are zero.
CountersZero(p) ==
    /\ p.imagesCompleted = 0
    /\ p.audioCompleted = 0
    /\ p.imagesFailed = 0
    /\ p.audioFailed = 0

\* generateAllAssets was called again after FAILED and has written its
\* first update; no task of the new call has run yet.
AssetsStartedAgain ==
    /\ runs > 1
    /\ pc = "images"
    /\ \A s \in Scenes : imgTask[s].pc = "pending"

\* An earlier render attempt of the video ended with FAILED persisted.
FailedBefore(a) ==
    \E b \in 1..(a - 1) :
        /\ attempts[b].pc = "threw"
        /\ \E k \in 1..Len(attempts[b].stages) : attempts[b].stages[k] = "FAILED"

RECURSIVE SplitLines(_, _)
SplitLines(text, line) ==
    IF text = <<>> THEN <<line>>
    ELSE IF Head(text) = "\n" THEN <<line>> \o SplitLines(Tail(text), <<>>)
    ELSE SplitLines(Tail(text), Append(line, Head(text)))

\* The word the concat demuxer reads from a quoted token: between single
\* quotes every character stands for itself, outside them a backslash
\* escapes the next character.
RECURSIVE Unquote(_, _)
Unquote(str, quoted) ==
    IF str = <<>> THEN <<>>
    ELSE IF Head(str) = "'" THEN Unquote(Tail(str), ~quoted)
    ELSE IF ~quoted /\ Head(str) = "\\" /\ Len(str) > 1
         THEN <<str[2]>> \o Unquote(Tail(Tail(str)), quoted)
    ELSE <<Head(str)>> \o Unquote(Tail(str), quoted)

\* The file a manifest line names.
EntryFile(line) == Unquote(SubSeq(line, 3, Len(line)), FALSE)

\* The call has come to its end without a rejection.
ConcatResolved == call.kind = "concatenateClips" /\ call.state = "resolved"

\* C24: a call with one clip that resolves has copied the clip to the
\* output, written nothing and spawned nothing; a call with more clips that
\* resolves has copied nothing, has written one manifest whose lines are one
\* "file" entry per clip, naming the clips in input order, and has spawned
\* one process, on that manifest, with -c copy.  No call spawns twice.
C24_CopyOrManifest ==
    call.kind = "concatenateClips" =>
      LET n == Len(call.clipPaths) IN
        /\ Len(call.spawned) <= 1
        /\ n = 1 => /\ call.spawned = <<>>
                    /\ call.written = <<>>
                    /\ ConcatResolved =>
                         call.copied = <<[from |-> call.clipPaths[1],
                                          to |-> call.outputPath]>>
        /\ n > 1 =>
            /\ call.copied = <<>>
            /\ ConcatResolved =>
                 /\ Len(call.written) = 1
                 /\ LET lines == SplitLines(call.written[1].content, <<>>)
                    IN  /\ Len(lines) = n
                        /\ \A k \in 1..n :
                             /\ lines[k][1] = "file"
                             /\ EntryFile(lines[k]) =
                                  ReplaceAll(call.clipPaths[k], "\\", <<"/">>)
                 /\ Len(call.spawned) = 1
                 /\ \E j \in 1..11 :
                      /\ call.spawned[1][j] = "-c"
                      /\ call.spawned[1][j + 1] = "copy"
                 /\ \E j \in 1..11 :
                      /\ call.spawned[1][j] = "-i"
                      /\ call.spawned[1][j + 1] = call.written[1].file

\* C24 witness: a call with three clips, among them one with a quote and
\* one with a backslash, has resolved.
C24_Witness ==
    /\ ConcatResolved
    /\ call.clipPaths = << <<"o", "'", "k">>, <<"d", "\\", "e">>, <<"a">> >>
    /\ Len(call.spawned) = 1

\* The probe process has ended, or could not be started.
ProbeOver == call.kind = "getAudioDuration" /\ (call.closed \/ call.errored)

\* The probe failed: no start, an exit code other than 0, or an output that
\* is not a number.
ProbeFailed ==
    \/ call.errored
    \/ call.closed /\ call.code # 0
    \/ call.closed /\ ParseFloat(TrimString(call.output)) = NaN

\* C25: the promise of getAudioDuration is never rejected; once the probe
\* has ended it is resolved, with 5 when the probe failed and with a number
\* in every case.
C25_ProbeNeverFails ==
    call.kind = "getAudioDuration" =>
        /\ call.state \in {"pending", "resolved"}
        /\ ProbeOver =>
             /\ call.state = "resolved"
             /\ call.result # NaN
             /\ ProbeFailed => call.result = DefaultDuration

\* C25 witness: the probe printed a duration and ended with exit code 1.
C25_Witness ==
    /\ ProbeOver
    /\ call.code = 1
    /\ ParseFloat(TrimString(call.output)) = <<"1", "2", ".", "5">>
    /\ call.result = DefaultDuration

\* Request i of the call failed and the loop went round again.
Retried(i) == i < Len(call.log) \/ call.state = "running"

\* C26: after a failure of request n (counted from 1) that is not a
\* content-filter failure, generateImage and generateAudio wait n times the
\* fixed delay before the next request.
C26_LinearBackoff ==
    call.kind \in {"image", "audio"} =>
        \A i \in 1..Len(call.log) :
            (/\ call.log[i].outcome # Ok
             /\ ~isContentFilter(call.log[i].outcome)
             /\ Retried(i))
                => call.log[i].wait = i * RetryDelayMs

\* a occurs in b as a run of neighbouring tokens.
IsSubstring(a, b) ==
    \E k \in 0..(Len(b) - Len(a)) : SubSeq(b, k + 1, k + Len(a)) = a

\* C27: for every prompt, level 3 returns the one fixed prompt; what level 2
\* returns contains what level 1 returns as a contiguous part; and level 1
\* applied to its own result returns that result.
C27_SanitizeLevels ==
    call.kind = "sanitizePrompt" =>
        /\ 3 \in call.done => call.out[3] = Level3Prompt
        /\ {1, 2} \subseteq call.done => IsSubstring(call.out[1], call.out[2])
        /\ call.twice => call.again = call.out[1]

\* C27 witness: all calls were made for a prompt in which a term stands
\* between two words, so that its removal leaves white space doubled.
C27_Witness ==
    /\ call.kind = "sanitizePrompt"
    /\ call.prompt = <<"city", " ", "Gun", " ", "city">>
    /\ call.done = Levels
    /\ call.twice
    /\ call.out[1] = <<"city", " ", "city">>

\* The scene numbers in a list of clips.
ClipScenes(clips) == {clips[k] : k \in 1..Len(clips)}

\* C28: in one attempt at most one clip process is in flight, and only
\* while the loop stands at its scene; when the downloads or the render of
\* a scene are under way, no process of an earlier scene is in flight and
\* every earlier scene that was not passed over has its clip in the list.
C28_OneClipAtATime ==
    \A a \in Attempts :
        LET att == attempts[a] IN
        /\ Cardinality(att.rendering) <= 1
        /\ att.pc # "render" => att.rendering = {}
        /\ att.pc = "render" => att.rendering = {scenes[att.i].sceneNumber}
        /\ att.pc \in {"clip", "render"} =>
              \A j \in 1..(att.i - 1) :
                  /\ scenes[j].sceneNumber \notin att.rendering
                  /\ ~Skipped(att, scenes[j].sceneNumber) =>
                        scenes[j].sceneNumber \in ClipScenes(att.clipPaths)

\* C28 witness: the clip of the second scene is being rendered and the clip
\* of the first is in the list.
C28_Witness ==
    \E a \in Attempts :
        /\ attempts[a].pc = "render"
        /\ attempts[a].i = 2
        /\ attempts[a].rendering = {2}
        /\ attempts[a].clipPaths = <<1>>

\* The scene has a usable image row and a usable audio row.
HasBoth(sceneNumber) ==
    /\ \E r \in videoImages : r.sceneNumber = sceneNumber /\ Usable(r)
    /\ \E r \in videoAudios : r.sceneNumber = sceneNumber /\ Usable(r)

\* The attempts has left the scene loop at its end.
LoopLeft(att) == att.i = Len(scenes) + 1

\* The catch block was entered.
Caught(att) == att.pc \in {"catch", "catchCleanup", "threw"}

\* C29: downloads and the clip process happen only for a scene that has
\* both a usable image and a usable audio row, and only such a scene gets a
\* clip; passing over the others does not end the attempt.  An attempt that
\* has gone through the whole loop ends with the error of no clips, and
\* without the stage CONCATENATING, exactly when no scene has both.
C29_SkipsAndZeroClips ==
    \A a \in Attempts :
        LET att == attempts[a] IN
        /\ att.pc \in {"clip", "render"} => HasBoth(scenes[att.i].sceneNumber)
        /\ \A s \in ClipScenes(att.clipPaths) \cup att.rendering : HasBoth(s)
        /\ att.error = NoClips =>
              /\ Caught(att)
              /\ LoopLeft(att)
              /\ \A j \in 1..Len(scenes) : ~HasBoth(scenes[j].sceneNumber)
              /\ \A k \in 1..Len(att.stages) : att.stages[k] # "CONCATENATING"
        /\ (LoopLeft(att) /\ \A j \in 1..Len(scenes) : ~HasBoth(scenes[j].sceneNumber)) =>
              \/ att.pc = "concat"
              \/ Caught(att) /\ att.error = NoClips
        /\ (LoopLeft(att) /\ \E j \in 1..Len(scenes) : HasBoth(scenes[j].sceneNumber)) =>
              att.error # NoClips

\* C29 witness: both scenes of a plan were passed over, one of them having
\* a usable image, and the attempt has thrown the error of no clips.
C29_Witness ==
    \E a \in Attempts :
        /\ attempts[a].pc = "threw"
        /\ attempts[a].raised = NoClips
        /\ Len(scenes) = 2
        /\ attempts[a].images # {}

\* p is k / n * 80 rounded to a nearest whole number.
NearestPercent(p, k, n) ==
    /\ 2 * (p * n - 80 * k) <= n
    /\ 2 * (80 * k - p * n) <= n

\* A write of the scene loop: the percentage it persists is that of the
\* scenes the loop has behind it.
SceneWritePercent(a) ==
    (/\ attempts[a].pc = "scene"
     /\ Len(attempts'[a].stages) = Len(attempts[a].stages) + 1)
        => /\ video'.renderProgress.stage = "RENDERING_SCENES"
           /\ video'.renderProgress.progress \in 0..80
           /\ NearestPercent(video'.renderProgress.progress,
                             attempts[a].i - 1, Len(scenes))

\* The percentage persisted does not go down, up to the write of FAILED,
\* which carries none.
PercentNotDown ==
    (video.renderProgress.stage # "FAILED" /\ video'.renderProgress.stage # "FAILED")
        => video'.renderProgress.progress >= video.renderProgress.progress

C31_EffectAtIndex ==
    \A a \in Attempts : \A j \in 1..Len(attempts[a].clips) :
        LET c == attempts[a].clips[j]
        IN  c.effectType =
                <<"zoomIn", "zoomOut", "panLeft", "panRight", "kenBurns">>
                    [(c.index % 5) + 1]

\* C31 amended: the effect of the scene at plan index i is the element at
\* position i mod 5 of zoom in, pan right, zoom out, pan left, zoom with
\* pan, scenes passed over counting in i.
C31_EffectCycle ==
    \A a \in Attempts : \A j \in 1..Len(attempts[a].clips) :
        LET c == attempts[a].clips[j]
        IN  c.effectType =
                <<"zoomIn", "panRight", "zoomOut", "panLeft", "kenBurns">>
                    [(c.index % 5) + 1]

\* C31 witness: the sixth scene of a plan is rendered with the first effect
\* again, after a scene was passed over.
C31_Witness ==
    /\ Len(attempts[1].clips) = 3
    /\ attempts[1].clips[3].index = 5
    /\ attempts[1].clips[3].effectType = "zoomIn"
    /\ attempts[1].clips[2].effectType = "panLeft"

\* The narration of scene s is empty or whitespace only.
BlankScene(s) == scenes[s].narration \in {<<>>, <<" ">>}

\* A step of the audio task of scene s, from its start to its settling.
AudioTaskStep(s) ==
    /\ audTask[s].pc \in {"pending", "snap", "snap2"}
    /\ audTask'[s] # audTask[s]

\* C32: with a voice other than "none", the audio task of a scene whose
\* narration is empty or whitespace only issues no speech request, creates
\* no audio row, adds one to audioCompleted (when it counts the scene) and
\* never changes audioFailed.
C32_BlankNarrationSkipped ==
    [][\A s \in Scenes :
         (voiceInput # "none" /\ BlankScene(s) /\ AudioTaskStep(s))
            => /\ ~audTask'[s].called
               /\ videoAudios' = videoAudios
               /\ progress'.audioCompleted = progress.audioCompleted
                    + (IF audTask[s].pc = "pending" THEN 1 ELSE 0)
               /\ progress'.audioFailed = progress.audioFailed]_vars

\* The progress writes the tasks of the run have issued.
TaskWrites(task) ==
    LET RECURSIVE Sum(_)
        Sum(n) == IF n = 0 THEN 0 ELSE task[n].writes + Sum(n - 1)
    IN  Sum(Len(task))

WriteInFlight ==
    \E s \in Scenes : imgTask[s].pc \in {"snap", "snap2"}
                      \/ audTask[s].pc \in {"snap", "snap2"}

\* C34: in whatever order the tasks ran and their progress writes landed,
\* once the run has persisted its final status the persisted progress is
\* the in-memory counters and no progress write of a task is left to land.
C34_FinalWriteLast ==
    pc = "done" => (assetProgress = progress /\ ~WriteInFlight)

\* C34 witness: a run over two scenes persisted its final status after the
\* progress writes of both image tasks and of its audio tasks had landed.
C34_Witness ==
    /\ pc = "done"
    /\ Len(scenes) = 2
    /\ ~dbFailed
    /\ assetProgress = progress
    /\ progress.imagesCompleted + progress.imagesFailed = 2

\* An audio task of the run has been started.
AudioStarted == \E s \in Scenes : audTask[s].pc # "none" \/ audTask[s].called

\* C35: when an audio task has been started, and so before any speech
\* request, the image tasks of all scenes have settled fulfilled and the
\* join of the image batch is behind; a run whose image batch rejected
\* starts none.
C35_AudioAfterImages ==
    /\ AudioStarted =>
         /\ \A s \in Scenes : imgTask[s].pc = "done"
         /\ pc # "images"
    /\ (\E s \in Scenes : imgTask[s].pc = "rejected") => ~AudioStarted

\* C35 witness: the speech request of the first of two scenes has been
\* made while the audio task of the second has not run yet.
C35_Witness ==
    /\ Len(scenes) = 2
    /\ audTask[1].called
    /\ audTask[2].pc = "pending"
    /\ \A s \in Scenes : imgTask[s].pc = "done"

\* C36: a render attempt for a video whose assetStatus is COMPLETED, in
\* which no call failed, ends with renderProgress COMPLETED and at least
\* one clip, also when the voice is "none" or every narration is empty.
C36_CompletedAssetsRender ==
    (/\ assetStatus = "COMPLETED"
     /\ faults = 0
     /\ attempts[1].pc \in {"returned", "threw"})
        => /\ attempts[1].pc = "returned"
           /\ video.renderProgress = Completed
           /\ Len(attempts[1].clipPaths) >= 1

\* renderVideo has been called for the attempt and has neither returned nor
\* thrown.
Running(att) ==
    att.pc \notin {"idle", "checked", "refused", "returned", "threw"}

\* C37: at no time are two render attempts for the video inside renderVideo;
\* a render request made while an attempt has not ended starts no second
\* one.
C37_OneAttemptInFlight ==
    \A a, b \in Attempts :
        (Running(attempts[a]) /\ Running(attempts[b])) => a = b

\* C38: after the assets of a video were generated more than once, the
\* image and audio rows renderVideo renders a scene from were created by the
\* last generation run.
C38_LatestRowsRendered ==
    \A a \in Attempts : \A j \in 1..Len(attempts[a].clips) :
        LET sceneNumber == scenes[attempts[a].clips[j].index + 1].sceneNumber
        IN  /\ attempts[a].imageMap[sceneNumber].run = runs
            /\ attempts[a].audioMap[sceneNumber].run = runs

\* wide, tall or square
Orientation(width, height) ==
    IF width > height THEN "wide" ELSE IF width < height THEN "tall" ELSE "square"

\* C39: whatever the aspect ratio of the video, a scene is rendered at a
\* resolution of the orientation (wide, tall, square) of the size its image
\* was generated at.
C39_SameOrientation ==
    \A a \in Attempts : \A j \in 1..Len(attempts[a].clips) :
        LET c == attempts[a].clips[j]
            image == attempts[a].imageMap[scenes[c.index + 1].sceneNumber]
        IN  Orientation(c.width, c.height) = Orientation(image.width, image.height)

\* C40: no step of a render attempt changes the status of a video that is
\* IN_REVIEW or APPROVED, whether the attempt ends COMPLETED or FAILED.
C40_ReviewStatusKept ==
    [][video.status \in {"IN_REVIEW", "APPROVED"}
          => video'.status = video.status]_vars

====
